---- MODULE Spec2Model ----
(***************************************************************************)
(* State-machine model of contracts/AnonymousCopyrightV2.sol: the          *)
(* verification and dispute request/callback machines, the escrow ledger   *)
(* and the timeout refunds.                                                *)
(*                                                                         *)
(* Conventions.                                                            *)
(*  - Amounts are in gwei (1 ether = 10^9 gwei), so 0.001 ether = 10^6.    *)
(*  - An encrypted value (euint32, ebool) is represented by the plaintext  *)
(*    it hides; only the decryption oracle reads it.                       *)
(*  - A Solidity mapping is a total function with the zero value as        *)
(*    default, so works[0] and verificationRequests[r] for an id that was  *)
(*    never issued are ordinary (all-zero) records.                        *)
(*  - A call that reverts leaves the state unchanged; an action is enabled *)
(*    exactly when the call it models commits.  Every function has an      *)
(*    operator <name>Revert giving the first failing require, or "ok".     *)
(*  - A function that sends ether yields to the recipient in the middle:  *)
(*    its action runs up to and including the call (effects committed,     *)
(*    _locked set, a frame pushed on callStack), and TransferReturns is    *)
(*    the return, after whatever calls the recipient made meanwhile.       *)
(*  - The record v1 holds the storage of contracts/AnonymousCopyright.sol, *)
(*    the earlier contract; its functions are the V1_ actions.             *)
(***************************************************************************)
EXTENDS Integers, Sequences, FiniteSets, TLC

\* ---------------------------------------------------------------- bounds
\* At most MaxRecords works, disputes and oracle requests are created in a
\* run; the clock stops after MaxBlocks blocks; authors and works are
\* registered in the first MaxRegistrationBlock + 1 blocks.  A run carries
\* its budget in the variable limits (records in all, of which so many works
\* and so many oracle requests; so many plain transfers and simulated
\* callbacks), so that a specification of more operations can run on a
\* smaller budget.
MaxRecords == 4
MaxBlocks == 2
MaxRegistrationBlock == 0
\* The budget of the specifications that run both machines at once.
MaxTimeoutRecords == 3
MaxTimeoutBlocks == 1
\* Outbound transfers in flight at once (one inside the other).
MaxCallDepth == 2
\* The budget of the specification that fills a work's dispute list: so many
\* works and so many resolution requests, and room for one dispute more than
\* MAX_DISPUTES_PER_WORK.
MaxCapWorks == 1
MaxCapRequests == 2
MaxPairRecords == 5
MaxPairWorks == 2
MaxPairRequests == 2
MaxPairBlocks == 1
\* Plain transfers of ether to the contract (receive) in one run.
MaxPlainTransfers == 1
\* Simulated callbacks (the owner's test helpers) in one run of the
\* specification of the timeout claims.
MaxSimulations == 1

\* ------------------------------------------------------ program constants
MIN_REGISTRATION_FEE == 1000000
MAX_TITLE_LENGTH == 200
MAX_CATEGORY_LENGTH == 100
VERIFICATION_TIMEOUT == 3600
DISPUTE_TIMEOUT == 86400
MAX_DISPUTES_PER_WORK == 10
DISPUTE_DEPOSIT == 5000000

\* ------------------------------------------------------------ input sets
ZeroAddress == "0x0"
Deployer == "owner"
Accounts == {"owner", "alice", "bob"}
Users == {"alice", "bob"}
Registrants == {"alice"}
Requesters == {"bob"}
Addresses == Accounts \cup {ZeroAddress}
FeeRecipients == {Deployer, ZeroAddress}
WorkIds == 0..MaxRecords
RequestIds == 0..MaxRecords
DisputeIds == 0..MaxRecords
HashValues == {0, 1, 2}
WorkHashValues == {0, 1}
AuthorIdValues == {0, 7}
\* The extreme arguments of the edge-case tests: zero, one and the largest
\* value the checker's integers hold, standing for 2^64 - 1 and 2^32 - 1 (the
\* code reads both arguments only through a comparison with 0).
RegistrationExtremes == {0, 1, 7, 2147483647}
TitleLengths == {0, 1, MAX_TITLE_LENGTH + 1}
CategoryLengths == {0, 1, MAX_CATEGORY_LENGTH + 1}
\* Fees the owner sets: below the minimum, the minimum, and twice the minimum.
NewFeeValues ==
    {MIN_REGISTRATION_FEE - 1, MIN_REGISTRATION_FEE, 2 * MIN_REGISTRATION_FEE}
\* Amounts sent to the contract without a function call.
PlainTransferValues == {MIN_REGISTRATION_FEE}
RegistrationValues == {MIN_REGISTRATION_FEE - 1, MIN_REGISTRATION_FEE}
VerificationValues == {MIN_REGISTRATION_FEE - 1, MIN_REGISTRATION_FEE}
DisputeValues == {DISPUTE_DEPOSIT - 1, DISPUTE_DEPOSIT}
VerificationDeposits ==
    {MIN_REGISTRATION_FEE - 1, MIN_REGISTRATION_FEE, MIN_REGISTRATION_FEE + 1}
GenesisTime == 1000
TimeSteps == {VERIFICATION_TIMEOUT, DISPUTE_TIMEOUT}
VerificationTimeSteps == {VERIFICATION_TIMEOUT}
DisputeTimeSteps == {DISPUTE_TIMEOUT}
PastTimeoutSteps == {DISPUTE_TIMEOUT + 1}
VerificationBoundarySteps == {VERIFICATION_TIMEOUT, VERIFICATION_TIMEOUT + 1}
DisputeBoundarySteps == {DISPUTE_TIMEOUT, DISPUTE_TIMEOUT + 1}
\* The request ids the owner passes to a simulated callback: the ids the
\* oracle can have issued, and 0, which it never issues.
SimulatedRequestIds == 0..MaxCapRequests
\* The winners the owner names in a simulated callback: nobody, or the
\* challenger.
SimulatedWinners == {ZeroAddress} \cup Requesters
CapDisputeIds == {0, MAX_DISPUTES_PER_WORK - 1, MAX_DISPUTES_PER_WORK}
\* A budget of simulated callbacks that never runs out: a simulated callback
\* succeeds at most once for a request id and once for a dispute.
EverySimulation ==
    Cardinality(SimulatedRequestIds \cup RequestIds)
       + Cardinality(WorkIds \X (DisputeIds \cup CapDisputeIds))

\* ------------------------------------------------------------------ state
VARIABLES
    owner,                      \* address public owner
    workCounter,                \* uint256 public workCounter
    registrationFee,            \* uint256 public registrationFee
    paused,                     \* bool public paused
    isTesting,                  \* bool public isTesting
    platformFees,               \* uint256 public platformFees
    works,                      \* mapping(uint256 => OriginalWork)
    disputes,                   \* mapping(uint256 => DisputeRecord[])
    authors,                    \* mapping(address => AuthorProfile)
    authorWorks,                \* mapping(address => uint256[])
    verificationRequests,       \* mapping(uint256 => VerificationRequest)
    pendingDecryptions,         \* mapping(uint256 => PendingDecryption)
    pendingRefunds,             \* mapping(address => uint256)
    verificationRequestCounter, \* uint256 public verificationRequestCounter
    locked,                     \* bool private _locked
    balance,                    \* address(this).balance
    now,                        \* block.timestamp
    blockNumber,                \* block.number
    counterRequest,             \* the oracle's next request id
    oracleCleartexts,           \* per request id, the plaintexts the oracle signs
    paidVerification,           \* per request id, total credited + transferred
    paidDispute,                \* per work and dispute, total credited + transferred
    received,                   \* per address, total value received from the contract
    credited,                   \* per address, total added to pendingRefunds
    withdrawn,                  \* per address, total paid out by withdrawRefund
    callStack,                  \* outbound transfers in flight, innermost last
    limits,                     \* how many records and blocks this run may create
    probe,                      \* inputs/output of the winner rule, checked in isolation
    v1                          \* storage of the earlier contract, AnonymousCopyright

vars == <<owner, workCounter, registrationFee, paused, isTesting, platformFees,
          works, disputes, authors, authorWorks, verificationRequests,
          pendingDecryptions, pendingRefunds, verificationRequestCounter,
          locked, balance, now, blockNumber, counterRequest, oracleCleartexts,
          paidVerification, paidDispute, received, credited, withdrawn,
          callStack, limits, probe, v1>>

\* --------------------------------------------------------- zero records
EmptyWork ==
    [contentHash |-> 0, registrant |-> ZeroAddress, timestamp |-> 0,
     registrationFeeAmount |-> 0, verified |-> FALSE, disputed |-> FALSE,
     disputeCount |-> 0]

EmptyAuthor ==
    [authorId |-> 0, registered |-> FALSE, workCount |-> 0,
     totalDisputes |-> 0, wonDisputes |-> 0, registrationTime |-> 0]

EmptyVerificationRequest ==
    [requester |-> ZeroAddress, workId |-> 0, requestId |-> 0,
     depositAmount |-> 0, requestTimestamp |-> 0, completed |-> FALSE,
     refunded |-> FALSE]

EmptyPendingDecryption ==
    [workId |-> 0, disputeId |-> 0, decryptionType |-> "Verification",
     initiator |-> ZeroAddress, timestamp |-> 0]

\* ------------------------------------------- the earlier contract's state
\* The earlier contract, AnonymousCopyright.sol: registration, the paid
\* verification request, its callback and its refund.  Its storage is the
\* record v1; amounts are in gwei; it shares the chain's clock.
V1_INITIAL_VERIFICATION_FEE == 1000000
V1_MAX_VERIFICATION_FEE == 100000000
V1_MAX_TITLE_LENGTH == 100
V1_MAX_CATEGORY_LENGTH == 50

\* Fees the owner sets, and values sent with a request.
V1FeeValues ==
    {V1_INITIAL_VERIFICATION_FEE, 2 * V1_INITIAL_VERIFICATION_FEE,
     V1_MAX_VERIFICATION_FEE + 1}
V1RequestValues == {V1_INITIAL_VERIFICATION_FEE, 2 * V1_INITIAL_VERIFICATION_FEE}

V1EmptyWork ==
    [contentHash |-> 0, registrant |-> ZeroAddress, timestamp |-> 0,
     verified |-> FALSE, disputed |-> FALSE, disputeCount |-> 0]

V1EmptyAuthor ==
    [authorId |-> 0, registered |-> FALSE, workCount |-> 0,
     totalDisputes |-> 0, wonDisputes |-> 0]

V1EmptyVerificationRequest ==
    [workId |-> 0, requester |-> ZeroAddress, timestamp |-> 0,
     decryptionRequestId |-> 0, processed |-> FALSE, feePaid |-> FALSE]

\* The state after the constructor.  valuePaid and refunds are history: the
\* msg.value of each request, and each credit made by claimVerificationRefund
\* with the value of processed when it was made.
V1Deployed ==
    [owner |-> Deployer,
     workCounter |-> 0,
     verificationFee |-> V1_INITIAL_VERIFICATION_FEE,
     works |-> [w \in WorkIds |-> V1EmptyWork],
     disputes |-> [w \in WorkIds |-> <<>>],
     authors |-> [a \in Addresses |-> V1EmptyAuthor],
     verificationRequests |-> [r \in RequestIds |-> V1EmptyVerificationRequest],
     pendingRefunds |-> [a \in Addresses |-> 0],
     locked |-> FALSE,
     balance |-> 0,
     counterRequest |-> 1,
     oracleCleartexts |-> [r \in RequestIds |-> <<>>],
     valuePaid |-> [r \in RequestIds |-> 0],
     refunds |-> [r \in RequestIds |-> <<>>]]

\* ------------------------------------------------------------ constructor
InitContract ==
    /\ owner = Deployer
    /\ workCounter = 0
    /\ registrationFee = MIN_REGISTRATION_FEE
    /\ paused = FALSE
    /\ isTesting = FALSE
    /\ platformFees = 0
    /\ works = [w \in WorkIds |-> EmptyWork]
    /\ disputes = [w \in WorkIds |-> <<>>]
    /\ authors = [a \in Addresses |-> EmptyAuthor]
    /\ authorWorks = [a \in Addresses |-> <<>>]
    /\ verificationRequests = [r \in RequestIds |-> EmptyVerificationRequest]
    /\ pendingDecryptions = [r \in RequestIds |-> EmptyPendingDecryption]
    /\ pendingRefunds = [a \in Addresses |-> 0]
    /\ verificationRequestCounter = 0
    /\ locked = FALSE
    /\ balance = 0
    /\ now = GenesisTime
    /\ blockNumber = 0
    /\ counterRequest = 1
    /\ oracleCleartexts = [r \in RequestIds |-> <<>>]
    /\ paidVerification = [r \in RequestIds |-> 0]
    /\ paidDispute = [w \in WorkIds |-> <<>>]
    /\ received = [a \in Addresses |-> 0]
    /\ credited = [a \in Addresses |-> 0]
    /\ withdrawn = [a \in Addresses |-> 0]
    /\ callStack = <<>>
    /\ v1 = V1Deployed

\* The whole budget of records and blocks.
FullLimits ==
    [records |-> MaxRecords, works |-> MaxRecords, requests |-> MaxRecords,
     blocks |-> MaxBlocks, registrationBlock |-> MaxRegistrationBlock,
     plainTransfers |-> MaxPlainTransfers,
     simulations |-> EverySimulation]

Init ==
    /\ InitContract
    /\ limits = FullLimits
    /\ probe = <<>>

\* ------------------------------------------------------------- modifiers
onlyOwner(sender) == sender = owner

whenNotPaused == ~paused

onlyRegisteredAuthor(sender) == authors[sender].registered

validWorkId(workId) == workId > 0 /\ workId <= workCounter

\* A guard that never rejects.
noReentrancy_Off == TRUE

noReentrancy == ~locked

\* Number of works, disputes and oracle requests created so far.
RecordsCreated ==
    workCounter
       + Cardinality(UNION {{<<w, i>> : i \in 1..Len(disputes[w])} : w \in WorkIds})
       + (counterRequest - 1)

\* A transfer whose result is not looked at.
TransferSucceeds_Ignored(amount, accepts) == TRUE

\* An outbound payable(to).call{value: amount}(""): it fails when the
\* contract holds less than amount or when the recipient refuses the payment.
TransferSucceeds(amount, accepts) == accepts /\ balance >= amount

\* While an outbound transfer is in flight the code of its recipient runs.
\* That code may call the contract itself or call other contracts that do,
\* so a call by any account can arrive before the transfer returns; only the
\* block clock stands still, the whole being one transaction.
NoCallInFlight == callStack = <<>>

\* An outbound payable(recipient).call{value: amount}("") hands control to
\* the recipient: the value has moved, the statements before the call have
\* taken effect, _locked is still set, and the recipient's code may call back
\* into the contract before it returns (TransferReturns).  A transfer that
\* fails reverts the whole call, nested calls included, and is no step.
Frame(fn, recipient, amount) == [fn |-> fn, recipient |-> recipient, amount |-> amount]

\* ------------------------------------------------------- admin functions
pause(sender) ==
    /\ onlyOwner(sender)
    /\ paused' = TRUE
    /\ UNCHANGED <<owner, workCounter, registrationFee, isTesting, platformFees,
                   works, disputes, authors, authorWorks, verificationRequests,
                   pendingDecryptions, pendingRefunds, verificationRequestCounter,
                   locked, balance, now, blockNumber, counterRequest,
                   oracleCleartexts, paidVerification, paidDispute, probe,
                   received, credited, withdrawn, callStack, limits, v1>>

unpause(sender) ==
    /\ onlyOwner(sender)
    /\ paused' = FALSE
    /\ UNCHANGED <<owner, workCounter, registrationFee, isTesting, platformFees,
                   works, disputes, authors, authorWorks, verificationRequests,
                   pendingDecryptions, pendingRefunds, verificationRequestCounter,
                   locked, balance, now, blockNumber, counterRequest,
                   oracleCleartexts, paidVerification, paidDispute, probe,
                   received, credited, withdrawn, callStack, limits, v1>>

setRegistrationFeeRevert(sender, newFee) ==
    IF ~onlyOwner(sender) THEN "AC: Not authorized"
    ELSE IF ~(newFee >= MIN_REGISTRATION_FEE) THEN "AC: Fee too low"
    ELSE "ok"

setRegistrationFee(sender, newFee) ==
    /\ setRegistrationFeeRevert(sender, newFee) = "ok"
    /\ registrationFee' = newFee
    /\ UNCHANGED <<owner, workCounter, paused, isTesting, platformFees,
                   works, disputes, authors, authorWorks, verificationRequests,
                   pendingDecryptions, pendingRefunds, verificationRequestCounter,
                   locked, balance, now, blockNumber, counterRequest,
                   oracleCleartexts, paidVerification, paidDispute, probe,
                   received, credited, withdrawn, callStack, limits, v1>>

\* receive() external payable {}: ether sent to the contract without a
\* function call is accepted and recorded nowhere but in the balance.
receive(sender, value) ==
    /\ limits.plainTransfers > 0
    /\ balance' = balance + value
    /\ limits' = [limits EXCEPT !.plainTransfers = @ - 1]
    /\ UNCHANGED <<owner, workCounter, registrationFee, paused, isTesting,
                   platformFees, works, disputes, authors, authorWorks,
                   verificationRequests, pendingDecryptions, pendingRefunds,
                   verificationRequestCounter, locked, now, blockNumber,
                   counterRequest, oracleCleartexts, paidVerification,
                   paidDispute, probe, received, credited, withdrawn,
                   callStack, v1>>

withdrawPlatformFeesRevert(sender, to, accepts) ==
    IF ~onlyOwner(sender) THEN "AC: Not authorized"
    ELSE IF ~noReentrancy THEN "AC: Reentrant call"
    ELSE IF ~(platformFees > 0) THEN "AC: No fees to withdraw"
    ELSE IF ~(to # ZeroAddress) THEN "AC: Invalid address"
    ELSE IF ~TransferSucceeds(platformFees, accepts) THEN "AC: Withdraw failed"
    ELSE "ok"

withdrawPlatformFees(sender, to, accepts) ==
    /\ withdrawPlatformFeesRevert(sender, to, accepts) = "ok"
    /\ Len(callStack) < MaxCallDepth
    /\ platformFees' = 0
    /\ balance' = balance - platformFees
    /\ received' = [received EXCEPT ![to] = @ + platformFees]
    /\ locked' = TRUE
    /\ callStack' = Append(callStack, Frame("withdrawPlatformFees", to, platformFees))
    /\ UNCHANGED <<owner, workCounter, registrationFee, paused, isTesting,
                   works, disputes, authors, authorWorks, verificationRequests,
                   pendingDecryptions, pendingRefunds, verificationRequestCounter,
                   now, blockNumber, counterRequest, oracleCleartexts,
                   paidVerification, paidDispute, probe,
                   credited, withdrawn, limits, v1>>

\* The owner's override of a work's verified flag.
markWorkAsVerifiedRevert(sender, workId) ==
    IF ~onlyOwner(sender) THEN "AC: Not authorized"
    ELSE IF ~validWorkId(workId) THEN "AC: Invalid work ID"
    ELSE "ok"

markWorkAsVerified(sender, workId) ==
    /\ markWorkAsVerifiedRevert(sender, workId) = "ok"
    /\ works' = [works EXCEPT ![workId].verified = TRUE]
    /\ UNCHANGED <<owner, workCounter, registrationFee, paused, isTesting,
                   platformFees, disputes, authors, authorWorks,
                   verificationRequests, pendingDecryptions, pendingRefunds,
                   verificationRequestCounter, locked, balance, now, blockNumber,
                   counterRequest, oracleCleartexts, paidVerification,
                   paidDispute, probe,
                   received, credited, withdrawn, callStack, limits, v1>>

\* ---------------------------------------------------------- registration
\* registerAuthor without its require(!authors[msg.sender].registered).
registerAuthorRevert_NoRegisteredCheck(sender, authorId) ==
    IF ~whenNotPaused THEN "AC: Contract paused"
    ELSE IF ~(authorId > 0) THEN "AC: Invalid author ID"
    ELSE "ok"

registerAuthorRevert(sender, authorId) ==
    IF ~whenNotPaused THEN "AC: Contract paused"
    ELSE IF authors[sender].registered THEN "AC: Already registered"
    ELSE IF ~(authorId > 0) THEN "AC: Invalid author ID"
    ELSE "ok"

registerAuthor(sender, authorId) ==
    /\ registerAuthorRevert(sender, authorId) = "ok"
    /\ blockNumber <= limits.registrationBlock
    /\ authors' = [authors EXCEPT ![sender] =
                     [authorId |-> authorId, registered |-> TRUE, workCount |-> 0,
                      totalDisputes |-> 0, wonDisputes |-> 0,
                      registrationTime |-> now]]
    /\ UNCHANGED <<owner, workCounter, registrationFee, paused, isTesting,
                   platformFees, works, disputes, authorWorks,
                   verificationRequests, pendingDecryptions, pendingRefunds,
                   verificationRequestCounter, locked, balance, now, blockNumber,
                   counterRequest, oracleCleartexts, paidVerification,
                   paidDispute, probe,
                   received, credited, withdrawn, callStack, limits, v1>>

\* registerWork without its onlyRegisteredAuthor modifier.
registerWorkRevert_NoAuthorCheck(sender, contentHash, titleLen, categoryLen, value) ==
    IF ~whenNotPaused THEN "AC: Contract paused"
    ELSE IF ~(titleLen > 0) THEN "AC: Title required"
    ELSE IF ~(titleLen <= MAX_TITLE_LENGTH) THEN "AC: Title too long"
    ELSE IF ~(categoryLen > 0) THEN "AC: Category required"
    ELSE IF ~(categoryLen <= MAX_CATEGORY_LENGTH) THEN "AC: Category too long"
    ELSE IF ~(value >= registrationFee) THEN "AC: Insufficient fee"
    ELSE IF ~(contentHash > 0) THEN "AC: Invalid content hash"
    ELSE "ok"

registerWorkRevert(sender, contentHash, titleLen, categoryLen, value) ==
    IF ~onlyRegisteredAuthor(sender) THEN "AC: Author not registered"
    ELSE IF ~whenNotPaused THEN "AC: Contract paused"
    ELSE IF ~(titleLen > 0) THEN "AC: Title required"
    ELSE IF ~(titleLen <= MAX_TITLE_LENGTH) THEN "AC: Title too long"
    ELSE IF ~(categoryLen > 0) THEN "AC: Category required"
    ELSE IF ~(categoryLen <= MAX_CATEGORY_LENGTH) THEN "AC: Category too long"
    ELSE IF ~(value >= registrationFee) THEN "AC: Insufficient fee"
    ELSE IF ~(contentHash > 0) THEN "AC: Invalid content hash"
    ELSE "ok"

\* registerWork without authorWorks[msg.sender].push(workId).
registerWork_NoListPush(sender, contentHash, titleLen, categoryLen, value) ==
    /\ registerWorkRevert(sender, contentHash, titleLen, categoryLen, value) = "ok"
    /\ RecordsCreated < limits.records
    /\ workCounter < limits.works
    /\ blockNumber <= limits.registrationBlock
    /\ workCounter' = workCounter + 1
    /\ works' = [works EXCEPT ![workCounter + 1] =
                   [contentHash |-> contentHash, registrant |-> sender,
                    timestamp |-> now, registrationFeeAmount |-> value,
                    verified |-> FALSE, disputed |-> FALSE, disputeCount |-> 0]]
    /\ authors' = [authors EXCEPT ![sender].workCount = @ + 1]
    /\ platformFees' = platformFees + value
    /\ balance' = balance + value
    /\ UNCHANGED <<owner, registrationFee, paused, isTesting, disputes, authorWorks,
                   verificationRequests, pendingDecryptions, pendingRefunds,
                   verificationRequestCounter, locked, now, blockNumber,
                   counterRequest, oracleCleartexts, paidVerification,
                   paidDispute, probe,
                   received, credited, withdrawn, callStack, limits, v1>>

registerWork(sender, contentHash, titleLen, categoryLen, value) ==
    /\ registerWorkRevert(sender, contentHash, titleLen, categoryLen, value) = "ok"
    /\ RecordsCreated < limits.records
    /\ workCounter < limits.works
    /\ blockNumber <= limits.registrationBlock
    /\ workCounter' = workCounter + 1
    /\ works' = [works EXCEPT ![workCounter + 1] =
                   [contentHash |-> contentHash, registrant |-> sender,
                    timestamp |-> now, registrationFeeAmount |-> value,
                    verified |-> FALSE, disputed |-> FALSE, disputeCount |-> 0]]
    /\ authorWorks' = [authorWorks EXCEPT ![sender] = Append(@, workCounter + 1)]
    /\ authors' = [authors EXCEPT ![sender].workCount = @ + 1]
    /\ platformFees' = platformFees + value
    /\ balance' = balance + value
    /\ UNCHANGED <<owner, registrationFee, paused, isTesting, disputes,
                   verificationRequests, pendingDecryptions, pendingRefunds,
                   verificationRequestCounter, locked, now, blockNumber,
                   counterRequest, oracleCleartexts, paidVerification,
                   paidDispute, probe,
                   received, credited, withdrawn, callStack, limits, v1>>

\* ------------------------------------------------------------ block clock
AdvanceTime(step) ==
    /\ NoCallInFlight
    /\ blockNumber < limits.blocks
    /\ blockNumber' = blockNumber + 1
    /\ now' = now + step
    /\ UNCHANGED <<owner, workCounter, registrationFee, paused, isTesting,
                   platformFees, works, disputes, authors, authorWorks,
                   verificationRequests, pendingDecryptions, pendingRefunds,
                   verificationRequestCounter, locked, balance, counterRequest,
                   oracleCleartexts, paidVerification, paidDispute, probe,
                   received, credited, withdrawn, callStack, limits, v1>>

\* ------------------------------------------------------ decryption oracle
\* Result payloads (abi-encoded words): one word for a verification, two for
\* a dispute resolution.
Cleartexts ==
    {<<0>>, <<1>>}
       \cup {<<a, b>> : a \in WorkHashValues \ {0}, b \in HashValues \ {0}}

\* What FHE.eq, decrypted, yields as an abi-encoded bool.
EncodeBool(b) == IF b THEN 1 ELSE 0

\* FHE.requestDecryption: the oracle assigns its next request id and will,
\* later, sign the plaintexts of the handles of that request.
OracleIssued(requestId) == oracleCleartexts[requestId] # <<>>

\* A decryption proof is a signature over (requestId, cleartexts), by the
\* oracle or by somebody else.
Proofs ==
    [signer : {"oracle", "other"}, requestId : RequestIds, cleartexts : Cleartexts]

\* The oracle signs only the true plaintexts of a request it received.
OracleSigned(decryptionProof) ==
    /\ decryptionProof.signer = "oracle"
    /\ OracleIssued(decryptionProof.requestId)
    /\ decryptionProof.cleartexts = oracleCleartexts[decryptionProof.requestId]

\* A checkSignatures that does not check who signed.
checkSignatures_AnySigner(requestId, cleartexts, decryptionProof) ==
    /\ OracleIssued(decryptionProof.requestId)
    /\ decryptionProof.requestId = requestId
    /\ decryptionProof.cleartexts = cleartexts

\* FHE.checkSignatures(requestId, cleartexts, decryptionProof): the proof is
\* the oracle's signature over exactly this request id and these cleartexts.
checkSignatures(requestId, cleartexts, decryptionProof) ==
    /\ OracleSigned(decryptionProof)
    /\ decryptionProof.requestId = requestId
    /\ decryptionProof.cleartexts = cleartexts

\* abi.decode(cleartexts, (bool)): reads the first word, which must be 0 or 1.
CanDecodeBool(cleartexts) == Len(cleartexts) >= 1 /\ cleartexts[1] \in {0, 1}

DecodeBool(cleartexts) == cleartexts[1] = 1

\* abi.decode(cleartexts, (uint32, uint32)): reads the first two words.
CanDecodeHashes(cleartexts) == Len(cleartexts) >= 2

\* --------------------------------------------------- verification machine
requestVerifyWorkRevert(sender, workId, contentHashToVerify, value) ==
    IF ~validWorkId(workId) THEN "AC: Invalid work ID"
    ELSE IF ~whenNotPaused THEN "AC: Contract paused"
    ELSE IF ~noReentrancy THEN "AC: Reentrant call"
    ELSE IF ~(value >= MIN_REGISTRATION_FEE) THEN "AC: Verification deposit required"
    ELSE IF ~(contentHashToVerify > 0) THEN "AC: Invalid content hash"
    ELSE IF ~(works[workId].registrant # ZeroAddress) THEN "AC: Work not found"
    ELSE "ok"

\* requestVerifyWork that records the minimum fee as the deposit.
requestVerifyWork_MinDeposit(sender, workId, contentHashToVerify, value) ==
    /\ requestVerifyWorkRevert(sender, workId, contentHashToVerify, value) = "ok"
    /\ RecordsCreated < limits.records
    /\ counterRequest <= limits.requests
    /\ LET requestId == counterRequest
           isMatch == works[workId].contentHash = contentHashToVerify
       IN  /\ counterRequest' = counterRequest + 1
           /\ oracleCleartexts' =
                 [oracleCleartexts EXCEPT ![requestId] = <<EncodeBool(isMatch)>>]
           /\ verificationRequestCounter' = verificationRequestCounter + 1
           /\ verificationRequests' = [verificationRequests EXCEPT ![requestId] =
                 [requester |-> sender, workId |-> workId, requestId |-> requestId,
                  depositAmount |-> MIN_REGISTRATION_FEE, requestTimestamp |-> now,
                  completed |-> FALSE, refunded |-> FALSE]]
           /\ pendingDecryptions' = [pendingDecryptions EXCEPT ![requestId] =
                 [workId |-> workId, disputeId |-> 0,
                  decryptionType |-> "Verification", initiator |-> sender,
                  timestamp |-> now]]
    /\ balance' = balance + value
    /\ locked' = FALSE
    /\ UNCHANGED <<owner, workCounter, registrationFee, paused, isTesting,
                   platformFees, works, disputes, authors, authorWorks,
                   pendingRefunds, now, blockNumber, paidVerification,
                   paidDispute, probe,
                   received, credited, withdrawn, callStack, limits, v1>>

requestVerifyWork(sender, workId, contentHashToVerify, value) ==
    /\ requestVerifyWorkRevert(sender, workId, contentHashToVerify, value) = "ok"
    /\ RecordsCreated < limits.records
    /\ counterRequest <= limits.requests
    /\ LET requestId == counterRequest
           isMatch == works[workId].contentHash = contentHashToVerify
       IN  /\ counterRequest' = counterRequest + 1
           /\ oracleCleartexts' =
                 [oracleCleartexts EXCEPT ![requestId] = <<EncodeBool(isMatch)>>]
           /\ verificationRequestCounter' = verificationRequestCounter + 1
           /\ verificationRequests' = [verificationRequests EXCEPT ![requestId] =
                 [requester |-> sender, workId |-> workId, requestId |-> requestId,
                  depositAmount |-> value, requestTimestamp |-> now,
                  completed |-> FALSE, refunded |-> FALSE]]
           /\ pendingDecryptions' = [pendingDecryptions EXCEPT ![requestId] =
                 [workId |-> workId, disputeId |-> 0,
                  decryptionType |-> "Verification", initiator |-> sender,
                  timestamp |-> now]]
    /\ balance' = balance + value
    /\ locked' = FALSE
    /\ UNCHANGED <<owner, workCounter, registrationFee, paused, isTesting,
                   platformFees, works, disputes, authors, authorWorks,
                   pendingRefunds, now, blockNumber, paidVerification,
                   paidDispute, probe,
                   received, credited, withdrawn, callStack, limits, v1>>

verificationCallbackRevert(requestId, cleartexts, decryptionProof) ==
    IF ~checkSignatures(requestId, cleartexts, decryptionProof) THEN "InvalidKMSSignatures"
    ELSE IF verificationRequests[requestId].completed THEN "AC: Already processed"
    ELSE IF ~CanDecodeBool(cleartexts) THEN "abi.decode"
    ELSE "ok"

\* verificationCallback that refunds the deposit only when the result is a match.
verificationCallback_CreditOnlyOnMatch(requestId, cleartexts, decryptionProof) ==
    /\ verificationCallbackRevert(requestId, cleartexts, decryptionProof) = "ok"
    /\ LET request == verificationRequests[requestId]
           isMatch == DecodeBool(cleartexts)
       IN  /\ verificationRequests' =
                 [verificationRequests EXCEPT ![requestId].completed = TRUE]
           /\ works' = IF isMatch
                       THEN [works EXCEPT ![request.workId].verified = TRUE]
                       ELSE works
           /\ pendingRefunds' =
                 IF isMatch /\ request.depositAmount > 0
                 THEN [pendingRefunds EXCEPT ![request.requester] = @ + request.depositAmount]
                 ELSE pendingRefunds
           /\ credited' =
                 IF isMatch /\ request.depositAmount > 0
                 THEN [credited EXCEPT ![request.requester] = @ + request.depositAmount]
                 ELSE credited
           /\ paidVerification' =
                 [paidVerification EXCEPT ![requestId] = @ + request.depositAmount]
    /\ UNCHANGED <<owner, workCounter, registrationFee, paused, isTesting,
                   platformFees, disputes, authors, authorWorks,
                   pendingDecryptions, verificationRequestCounter, locked,
                   balance, now, blockNumber, counterRequest, oracleCleartexts,
                   paidDispute, probe,
                   received, withdrawn, callStack, limits, v1>>

verificationCallback(requestId, cleartexts, decryptionProof) ==
    /\ verificationCallbackRevert(requestId, cleartexts, decryptionProof) = "ok"
    /\ LET request == verificationRequests[requestId]
           isMatch == DecodeBool(cleartexts)
       IN  /\ verificationRequests' =
                 [verificationRequests EXCEPT ![requestId].completed = TRUE]
           /\ works' = IF isMatch
                       THEN [works EXCEPT ![request.workId].verified = TRUE]
                       ELSE works
           /\ pendingRefunds' =
                 IF request.depositAmount > 0
                 THEN [pendingRefunds EXCEPT ![request.requester] = @ + request.depositAmount]
                 ELSE pendingRefunds
           /\ credited' =
                 IF request.depositAmount > 0
                 THEN [credited EXCEPT ![request.requester] = @ + request.depositAmount]
                 ELSE credited
           /\ paidVerification' =
                 [paidVerification EXCEPT ![requestId] = @ + request.depositAmount]
    /\ UNCHANGED <<owner, workCounter, registrationFee, paused, isTesting,
                   platformFees, disputes, authors, authorWorks,
                   pendingDecryptions, verificationRequestCounter, locked,
                   balance, now, blockNumber, counterRequest, oracleCleartexts,
                   paidDispute, probe,
                   received, withdrawn, callStack, limits, v1>>

claimVerificationTimeoutRevert(sender, requestId, accepts) ==
    LET request == verificationRequests[requestId] IN
    IF ~noReentrancy THEN "AC: Reentrant call"
    ELSE IF ~(request.requester = sender) THEN "AC: Not requester"
    ELSE IF request.completed THEN "AC: Already completed"
    ELSE IF request.refunded THEN "AC: Already refunded"
    ELSE IF ~(now > request.requestTimestamp + VERIFICATION_TIMEOUT) THEN "AC: Timeout not reached"
    ELSE IF request.depositAmount > 0 /\ ~TransferSucceeds(request.depositAmount, accepts)
         THEN "AC: Refund failed"
    ELSE "ok"

\* claimVerificationTimeout that credits the escrow ledger instead of
\* transferring the deposit.
claimVerificationTimeout_ViaEscrow(sender, requestId, accepts) ==
    /\ claimVerificationTimeoutRevert(sender, requestId, accepts) = "ok"
    /\ LET refundAmount == verificationRequests[requestId].depositAmount
       IN  /\ verificationRequests' =
                 [verificationRequests EXCEPT ![requestId].refunded = TRUE]
           /\ pendingRefunds' = [pendingRefunds EXCEPT ![sender] = @ + refundAmount]
           /\ credited' = [credited EXCEPT ![sender] = @ + refundAmount]
           /\ paidVerification' =
                 [paidVerification EXCEPT ![requestId] = @ + refundAmount]
    /\ locked' = FALSE
    /\ UNCHANGED <<owner, workCounter, registrationFee, paused, isTesting,
                   platformFees, works, disputes, authors, authorWorks,
                   pendingDecryptions, verificationRequestCounter, balance,
                   now, blockNumber, counterRequest, oracleCleartexts,
                   paidDispute, probe,
                   received, withdrawn, callStack, limits, v1>>

claimVerificationTimeout(sender, requestId, accepts) ==
    /\ claimVerificationTimeoutRevert(sender, requestId, accepts) = "ok"
    /\ LET refundAmount == verificationRequests[requestId].depositAmount
       IN  /\ verificationRequests' =
                 [verificationRequests EXCEPT ![requestId].refunded = TRUE]
           /\ balance' = balance - refundAmount
           /\ received' = [received EXCEPT ![sender] = @ + refundAmount]
           /\ paidVerification' =
                 [paidVerification EXCEPT ![requestId] = @ + refundAmount]
           /\ IF refundAmount > 0
              THEN /\ Len(callStack) < MaxCallDepth
                   /\ locked' = TRUE
                   /\ callStack' = Append(callStack,
                         Frame("claimVerificationTimeout", sender, refundAmount))
              ELSE /\ locked' = FALSE
                   /\ callStack' = callStack
    /\ UNCHANGED <<owner, workCounter, registrationFee, paused, isTesting,
                   platformFees, works, disputes, authors, authorWorks,
                   pendingDecryptions, pendingRefunds, verificationRequestCounter,
                   now, blockNumber, counterRequest, oracleCleartexts,
                   paidDispute, probe,
                   credited, withdrawn, limits, v1>>

\* ------------------------------------------------------------------ escrow
withdrawRefundRevert(sender, accepts) ==
    IF ~noReentrancy THEN "AC: Reentrant call"
    ELSE IF ~(pendingRefunds[sender] > 0) THEN "AC: No refund available"
    ELSE IF ~TransferSucceeds(pendingRefunds[sender], accepts) THEN "AC: Withdrawal failed"
    ELSE "ok"

\* withdrawRefund that never clears the caller's escrow balance.
withdrawRefund_NoZero(sender, accepts) ==
    /\ withdrawRefundRevert(sender, accepts) = "ok"
    /\ Len(callStack) < MaxCallDepth
    /\ balance' = balance - pendingRefunds[sender]
    /\ received' = [received EXCEPT ![sender] = @ + pendingRefunds[sender]]
    /\ withdrawn' = [withdrawn EXCEPT ![sender] = @ + pendingRefunds[sender]]
    /\ locked' = TRUE
    /\ callStack' = Append(callStack,
          Frame("withdrawRefund", sender, pendingRefunds[sender]))
    /\ UNCHANGED <<owner, workCounter, registrationFee, paused, isTesting,
                   platformFees, works, disputes, authors, authorWorks,
                   verificationRequests, pendingDecryptions, pendingRefunds,
                   verificationRequestCounter, now, blockNumber, counterRequest,
                   oracleCleartexts, paidVerification, paidDispute, probe,
                   credited, limits, v1>>

withdrawRefund(sender, accepts) ==
    /\ withdrawRefundRevert(sender, accepts) = "ok"
    /\ Len(callStack) < MaxCallDepth
    /\ pendingRefunds' = [pendingRefunds EXCEPT ![sender] = 0]
    /\ balance' = balance - pendingRefunds[sender]
    /\ received' = [received EXCEPT ![sender] = @ + pendingRefunds[sender]]
    /\ withdrawn' = [withdrawn EXCEPT ![sender] = @ + pendingRefunds[sender]]
    /\ locked' = TRUE
    /\ callStack' = Append(callStack,
          Frame("withdrawRefund", sender, pendingRefunds[sender]))
    /\ UNCHANGED <<owner, workCounter, registrationFee, paused, isTesting,
                   platformFees, works, disputes, authors, authorWorks,
                   verificationRequests, pendingDecryptions,
                   verificationRequestCounter, now, blockNumber, counterRequest,
                   oracleCleartexts, paidVerification, paidDispute, probe,
                   credited, limits, v1>>

\* --------------------------------------------------------- dispute machine
\* disputes[workId][disputeId]: Solidity arrays are 0-based, sequences 1-based.
DisputeExists(workId, disputeId) == disputeId < Len(disputes[workId])

DisputeAt(workId, disputeId) == disputes[workId][disputeId + 1]

\* fileDispute without its require(msg.value >= DISPUTE_DEPOSIT).
fileDisputeRevert_NoDepositCheck(sender, workId, challengerContentHash, value) ==
    IF ~validWorkId(workId) THEN "AC: Invalid work ID"
    ELSE IF ~onlyRegisteredAuthor(sender) THEN "AC: Author not registered"
    ELSE IF ~whenNotPaused THEN "AC: Contract paused"
    ELSE IF ~(challengerContentHash > 0) THEN "AC: Invalid content hash"
    ELSE IF ~(works[workId].registrant # sender) THEN "AC: Cannot dispute own work"
    ELSE IF ~(works[workId].disputeCount < MAX_DISPUTES_PER_WORK) THEN "AC: Max disputes reached"
    ELSE "ok"

fileDisputeRevert(sender, workId, challengerContentHash, value) ==
    IF ~validWorkId(workId) THEN "AC: Invalid work ID"
    ELSE IF ~onlyRegisteredAuthor(sender) THEN "AC: Author not registered"
    ELSE IF ~whenNotPaused THEN "AC: Contract paused"
    ELSE IF ~(value >= DISPUTE_DEPOSIT) THEN "AC: Insufficient dispute deposit"
    ELSE IF ~(challengerContentHash > 0) THEN "AC: Invalid content hash"
    ELSE IF ~(works[workId].registrant # sender) THEN "AC: Cannot dispute own work"
    ELSE IF ~(works[workId].disputeCount < MAX_DISPUTES_PER_WORK) THEN "AC: Max disputes reached"
    ELSE "ok"

\* fileDispute that counts the dispute for the challenger only.
fileDispute_NoOwnerCount(sender, workId, challengerContentHash, value) ==
    /\ fileDisputeRevert(sender, workId, challengerContentHash, value) = "ok"
    /\ RecordsCreated < limits.records
    /\ disputes' = [disputes EXCEPT ![workId] = Append(@,
            [challenger |-> sender, challengerContentHash |-> challengerContentHash,
             timestamp |-> now, depositAmount |-> value, resolved |-> FALSE,
             winner |-> ZeroAddress, decryptionRequestId |-> 0,
             requestTimestamp |-> 0])]
    /\ works' = [works EXCEPT ![workId].disputed = TRUE,
                              ![workId].disputeCount = @ + 1]
    /\ authors' = [authors EXCEPT ![sender].totalDisputes = @ + 1]
    /\ paidDispute' = [paidDispute EXCEPT ![workId] = Append(@, 0)]
    /\ balance' = balance + value
    /\ UNCHANGED <<owner, workCounter, registrationFee, paused, isTesting,
                   platformFees, authorWorks, verificationRequests,
                   pendingDecryptions, pendingRefunds, verificationRequestCounter,
                   locked, now, blockNumber, counterRequest, oracleCleartexts,
                   paidVerification, probe,
                   received, credited, withdrawn, callStack, limits, v1>>

\* fileDispute that leaves the dispute's timestamp unset.
fileDispute_NoTimestamp(sender, workId, challengerContentHash, value) ==
    /\ fileDisputeRevert(sender, workId, challengerContentHash, value) = "ok"
    /\ RecordsCreated < limits.records
    /\ disputes' = [disputes EXCEPT ![workId] = Append(@,
            [challenger |-> sender, challengerContentHash |-> challengerContentHash,
             timestamp |-> 0, depositAmount |-> value, resolved |-> FALSE,
             winner |-> ZeroAddress, decryptionRequestId |-> 0,
             requestTimestamp |-> 0])]
    /\ works' = [works EXCEPT ![workId].disputed = TRUE,
                              ![workId].disputeCount = @ + 1]
    /\ authors' = [[authors EXCEPT ![sender].totalDisputes = @ + 1]
                      EXCEPT ![works[workId].registrant].totalDisputes = @ + 1]
    /\ paidDispute' = [paidDispute EXCEPT ![workId] = Append(@, 0)]
    /\ balance' = balance + value
    /\ UNCHANGED <<owner, workCounter, registrationFee, paused, isTesting,
                   platformFees, authorWorks, verificationRequests,
                   pendingDecryptions, pendingRefunds, verificationRequestCounter,
                   locked, now, blockNumber, counterRequest, oracleCleartexts,
                   paidVerification, probe,
                   received, credited, withdrawn, callStack, limits, v1>>

\* fileDispute that counts the dispute for the work's owner only.
fileDispute_NoChallengerCount(sender, workId, challengerContentHash, value) ==
    /\ fileDisputeRevert(sender, workId, challengerContentHash, value) = "ok"
    /\ RecordsCreated < limits.records
    /\ disputes' = [disputes EXCEPT ![workId] = Append(@,
            [challenger |-> sender, challengerContentHash |-> challengerContentHash,
             timestamp |-> now, depositAmount |-> value, resolved |-> FALSE,
             winner |-> ZeroAddress, decryptionRequestId |-> 0,
             requestTimestamp |-> 0])]
    /\ works' = [works EXCEPT ![workId].disputed = TRUE,
                              ![workId].disputeCount = @ + 1]
    /\ authors' = [authors EXCEPT ![works[workId].registrant].totalDisputes = @ + 1]
    /\ paidDispute' = [paidDispute EXCEPT ![workId] = Append(@, 0)]
    /\ balance' = balance + value
    /\ UNCHANGED <<owner, workCounter, registrationFee, paused, isTesting,
                   platformFees, authorWorks, verificationRequests,
                   pendingDecryptions, pendingRefunds, verificationRequestCounter,
                   locked, now, blockNumber, counterRequest, oracleCleartexts,
                   paidVerification, probe,
                   received, credited, withdrawn, callStack, limits, v1>>

fileDispute(sender, workId, challengerContentHash, value) ==
    /\ fileDisputeRevert(sender, workId, challengerContentHash, value) = "ok"
    /\ RecordsCreated < limits.records
    /\ disputes' = [disputes EXCEPT ![workId] = Append(@,
            [challenger |-> sender, challengerContentHash |-> challengerContentHash,
             timestamp |-> now, depositAmount |-> value, resolved |-> FALSE,
             winner |-> ZeroAddress, decryptionRequestId |-> 0,
             requestTimestamp |-> 0])]
    /\ works' = [works EXCEPT ![workId].disputed = TRUE,
                              ![workId].disputeCount = @ + 1]
    /\ authors' = [[authors EXCEPT ![sender].totalDisputes = @ + 1]
                      EXCEPT ![works[workId].registrant].totalDisputes = @ + 1]
    /\ paidDispute' = [paidDispute EXCEPT ![workId] = Append(@, 0)]
    /\ balance' = balance + value
    /\ UNCHANGED <<owner, workCounter, registrationFee, paused, isTesting,
                   platformFees, authorWorks, verificationRequests,
                   pendingDecryptions, pendingRefunds, verificationRequestCounter,
                   locked, now, blockNumber, counterRequest, oracleCleartexts,
                   paidVerification, probe,
                   received, credited, withdrawn, callStack, limits, v1>>

\* requestDisputeResolution without its require that the caller is a party.
requestDisputeResolutionRevert_NoPartyCheck(sender, workId, disputeId) ==
    IF ~validWorkId(workId) THEN "AC: Invalid work ID"
    ELSE IF ~whenNotPaused THEN "AC: Contract paused"
    ELSE IF ~DisputeExists(workId, disputeId) THEN "AC: Invalid dispute ID"
    ELSE IF DisputeAt(workId, disputeId).resolved THEN "AC: Dispute already resolved"
    ELSE "ok"

requestDisputeResolutionRevert(sender, workId, disputeId) ==
    IF ~validWorkId(workId) THEN "AC: Invalid work ID"
    ELSE IF ~whenNotPaused THEN "AC: Contract paused"
    ELSE IF ~DisputeExists(workId, disputeId) THEN "AC: Invalid dispute ID"
    ELSE IF DisputeAt(workId, disputeId).resolved THEN "AC: Dispute already resolved"
    ELSE IF ~(sender = DisputeAt(workId, disputeId).challenger
              \/ sender = works[workId].registrant) THEN "AC: Not authorized"
    ELSE "ok"

\* requestDisputeResolution that keeps one timeout clock per work.
requestDisputeResolution_SharedClock(sender, workId, disputeId) ==
    /\ requestDisputeResolutionRevert(sender, workId, disputeId) = "ok"
    /\ RecordsCreated < limits.records
    /\ counterRequest <= limits.requests
    /\ LET requestId == counterRequest
       IN  /\ counterRequest' = counterRequest + 1
           /\ oracleCleartexts' = [oracleCleartexts EXCEPT ![requestId] =
                 <<works[workId].contentHash,
                   DisputeAt(workId, disputeId).challengerContentHash>>]
           /\ disputes' = [disputes EXCEPT ![workId] =
                 [i \in 1..Len(@) |->
                    IF i = disputeId + 1
                    THEN [@[i] EXCEPT !.decryptionRequestId = requestId,
                                      !.requestTimestamp = now]
                    ELSE [@[i] EXCEPT !.requestTimestamp = now]]]
           /\ pendingDecryptions' = [pendingDecryptions EXCEPT ![requestId] =
                 [workId |-> workId, disputeId |-> disputeId,
                  decryptionType |-> "DisputeResolution", initiator |-> sender,
                  timestamp |-> now]]
    /\ UNCHANGED <<owner, workCounter, registrationFee, paused, isTesting,
                   platformFees, works, authors, authorWorks,
                   verificationRequests, pendingRefunds,
                   verificationRequestCounter, locked, balance, now, blockNumber,
                   paidVerification, paidDispute, probe,
                   received, credited, withdrawn, callStack, limits, v1>>

requestDisputeResolution(sender, workId, disputeId) ==
    /\ requestDisputeResolutionRevert(sender, workId, disputeId) = "ok"
    /\ RecordsCreated < limits.records
    /\ counterRequest <= limits.requests
    /\ LET requestId == counterRequest
       IN  /\ counterRequest' = counterRequest + 1
           /\ oracleCleartexts' = [oracleCleartexts EXCEPT ![requestId] =
                 <<works[workId].contentHash,
                   DisputeAt(workId, disputeId).challengerContentHash>>]
           /\ disputes' = [disputes EXCEPT
                 ![workId][disputeId + 1].decryptionRequestId = requestId,
                 ![workId][disputeId + 1].requestTimestamp = now]
           /\ pendingDecryptions' = [pendingDecryptions EXCEPT ![requestId] =
                 [workId |-> workId, disputeId |-> disputeId,
                  decryptionType |-> "DisputeResolution", initiator |-> sender,
                  timestamp |-> now]]
    /\ UNCHANGED <<owner, workCounter, registrationFee, paused, isTesting,
                   platformFees, works, authors, authorWorks,
                   verificationRequests, pendingRefunds,
                   verificationRequestCounter, locked, balance, now, blockNumber,
                   paidVerification, paidDispute, probe,
                   received, credited, withdrawn, callStack, limits, v1>>

\* The winner rule with a strict comparison of the timestamps.
ResolveWinner_StrictTie(originalHash, challengerHash, workTimestamp, disputeTimestamp, registrant, challenger) ==
    IF originalHash = challengerHash
    THEN IF workTimestamp < disputeTimestamp THEN registrant ELSE challenger
    ELSE registrant

\* The winner rule of disputeResolutionCallback.
ResolveWinner(originalHash, challengerHash, workTimestamp, disputeTimestamp, registrant, challenger) ==
    IF originalHash = challengerHash
    THEN IF workTimestamp <= disputeTimestamp THEN registrant ELSE challenger
    ELSE registrant

\* disputeResolutionCallback without its require(!dispute.resolved).
disputeResolutionCallbackRevert_NoResolvedCheck(requestId, cleartexts, decryptionProof) ==
    LET pending == pendingDecryptions[requestId] IN
    IF ~noReentrancy THEN "AC: Reentrant call"
    ELSE IF ~checkSignatures(requestId, cleartexts, decryptionProof) THEN "InvalidKMSSignatures"
    ELSE IF ~(pending.decryptionType = "DisputeResolution") THEN "AC: Invalid callback"
    ELSE IF ~DisputeExists(pending.workId, pending.disputeId) THEN "Panic(0x32)"
    ELSE IF ~CanDecodeHashes(cleartexts) THEN "abi.decode"
    ELSE "ok"

disputeResolutionCallbackRevert(requestId, cleartexts, decryptionProof) ==
    LET pending == pendingDecryptions[requestId] IN
    IF ~noReentrancy THEN "AC: Reentrant call"
    ELSE IF ~checkSignatures(requestId, cleartexts, decryptionProof) THEN "InvalidKMSSignatures"
    ELSE IF ~(pending.decryptionType = "DisputeResolution") THEN "AC: Invalid callback"
    ELSE IF ~DisputeExists(pending.workId, pending.disputeId) THEN "Panic(0x32)"
    ELSE IF DisputeAt(pending.workId, pending.disputeId).resolved THEN "AC: Already resolved"
    ELSE IF ~CanDecodeHashes(cleartexts) THEN "abi.decode"
    ELSE "ok"

\* disputeResolutionCallback that counts a won dispute for whoever wins.
disputeResolutionCallback_CountsEveryWin(requestId, cleartexts, decryptionProof) ==
    /\ disputeResolutionCallbackRevert(requestId, cleartexts, decryptionProof) = "ok"
    /\ LET workId == pendingDecryptions[requestId].workId
           disputeId == pendingDecryptions[requestId].disputeId
           dispute == DisputeAt(workId, disputeId)
           work == works[workId]
           prizeAmount == dispute.depositAmount
           winner == ResolveWinner(cleartexts[1], cleartexts[2], work.timestamp,
                                   dispute.timestamp, work.registrant,
                                   dispute.challenger)
           challengerIsEarlier == cleartexts[1] = cleartexts[2]
                                     /\ ~(work.timestamp <= dispute.timestamp)
       IN  /\ authors' = [authors EXCEPT ![winner].wonDisputes = @ + 1]
           /\ disputes' = [disputes EXCEPT ![workId][disputeId + 1].resolved = TRUE,
                                           ![workId][disputeId + 1].winner = winner]
           /\ pendingRefunds' = IF prizeAmount > 0
                                THEN [pendingRefunds EXCEPT ![winner] = @ + prizeAmount]
                                ELSE pendingRefunds
           /\ credited' = IF prizeAmount > 0
                          THEN [credited EXCEPT ![winner] = @ + prizeAmount]
                          ELSE credited
           /\ paidDispute' = [paidDispute EXCEPT ![workId][disputeId + 1] = @ + prizeAmount]
    /\ locked' = FALSE
    /\ UNCHANGED <<owner, workCounter, registrationFee, paused, isTesting,
                   platformFees, works, authorWorks, verificationRequests,
                   pendingDecryptions, verificationRequestCounter, balance, now,
                   blockNumber, counterRequest, oracleCleartexts,
                   paidVerification, probe,
                   received, withdrawn, callStack, limits, v1>>

disputeResolutionCallback(requestId, cleartexts, decryptionProof) ==
    /\ disputeResolutionCallbackRevert(requestId, cleartexts, decryptionProof) = "ok"
    /\ LET workId == pendingDecryptions[requestId].workId
           disputeId == pendingDecryptions[requestId].disputeId
           dispute == DisputeAt(workId, disputeId)
           work == works[workId]
           prizeAmount == dispute.depositAmount
           winner == ResolveWinner(cleartexts[1], cleartexts[2], work.timestamp,
                                   dispute.timestamp, work.registrant,
                                   dispute.challenger)
           challengerIsEarlier == cleartexts[1] = cleartexts[2]
                                     /\ ~(work.timestamp <= dispute.timestamp)
       IN  /\ authors' = IF challengerIsEarlier
                         THEN [authors EXCEPT ![dispute.challenger].wonDisputes = @ + 1]
                         ELSE authors
           /\ disputes' = [disputes EXCEPT ![workId][disputeId + 1].resolved = TRUE,
                                           ![workId][disputeId + 1].winner = winner]
           /\ pendingRefunds' = IF prizeAmount > 0
                                THEN [pendingRefunds EXCEPT ![winner] = @ + prizeAmount]
                                ELSE pendingRefunds
           /\ credited' = IF prizeAmount > 0
                          THEN [credited EXCEPT ![winner] = @ + prizeAmount]
                          ELSE credited
           /\ paidDispute' = [paidDispute EXCEPT ![workId][disputeId + 1] = @ + prizeAmount]
    /\ locked' = FALSE
    /\ UNCHANGED <<owner, workCounter, registrationFee, paused, isTesting,
                   platformFees, works, authorWorks, verificationRequests,
                   pendingDecryptions, verificationRequestCounter, balance, now,
                   blockNumber, counterRequest, oracleCleartexts,
                   paidVerification, probe,
                   received, withdrawn, callStack, limits, v1>>

\* claimDisputeTimeout without its require(dispute.decryptionRequestId != 0).
claimDisputeTimeoutRevert_NoRequestedCheck(sender, workId, disputeId, accepts) ==
    IF ~noReentrancy THEN "AC: Reentrant call"
    ELSE IF ~DisputeExists(workId, disputeId) THEN "AC: Invalid dispute ID"
    ELSE LET dispute == DisputeAt(workId, disputeId) IN
    IF ~(dispute.challenger = sender) THEN "AC: Not challenger"
    ELSE IF dispute.resolved THEN "AC: Already resolved"
    ELSE IF ~(now > dispute.requestTimestamp + DISPUTE_TIMEOUT) THEN "AC: Timeout not reached"
    ELSE IF dispute.depositAmount > 0 /\ ~TransferSucceeds(dispute.depositAmount, accepts)
         THEN "AC: Refund failed"
    ELSE "ok"

claimDisputeTimeoutRevert(sender, workId, disputeId, accepts) ==
    IF ~noReentrancy THEN "AC: Reentrant call"
    ELSE IF ~DisputeExists(workId, disputeId) THEN "AC: Invalid dispute ID"
    ELSE LET dispute == DisputeAt(workId, disputeId) IN
    IF ~(dispute.challenger = sender) THEN "AC: Not challenger"
    ELSE IF dispute.resolved THEN "AC: Already resolved"
    ELSE IF ~(dispute.decryptionRequestId # 0) THEN "AC: Resolution not requested"
    ELSE IF ~(now > dispute.requestTimestamp + DISPUTE_TIMEOUT) THEN "AC: Timeout not reached"
    ELSE IF dispute.depositAmount > 0 /\ ~TransferSucceeds(dispute.depositAmount, accepts)
         THEN "AC: Refund failed"
    ELSE "ok"

claimDisputeTimeout(sender, workId, disputeId, accepts) ==
    /\ claimDisputeTimeoutRevert(sender, workId, disputeId, accepts) = "ok"
    /\ LET refundAmount == DisputeAt(workId, disputeId).depositAmount
       IN  /\ disputes' = [disputes EXCEPT ![workId][disputeId + 1].resolved = TRUE]
           /\ balance' = balance - refundAmount
           /\ received' = [received EXCEPT ![sender] = @ + refundAmount]
           /\ paidDispute' = [paidDispute EXCEPT ![workId][disputeId + 1] = @ + refundAmount]
           /\ IF refundAmount > 0
              THEN /\ Len(callStack) < MaxCallDepth
                   /\ locked' = TRUE
                   /\ callStack' = Append(callStack,
                         Frame("claimDisputeTimeout", sender, refundAmount))
              ELSE /\ locked' = FALSE
                   /\ callStack' = callStack
    /\ UNCHANGED <<owner, workCounter, registrationFee, paused, isTesting,
                   platformFees, works, authors, authorWorks,
                   verificationRequests, pendingDecryptions, pendingRefunds,
                   verificationRequestCounter, now, blockNumber, counterRequest,
                   oracleCleartexts, paidVerification, probe,
                   credited, withdrawn, limits, v1>>

\* ------------------------------------------------------------------ views
\* getVerificationStatus(requestId): the stored request and whether its
\* timeout refund can be claimed.
getVerificationStatus(requestId) ==
    LET request == verificationRequests[requestId] IN
    [requester |-> request.requester,
     workId |-> request.workId,
     depositAmount |-> request.depositAmount,
     requestTimestamp |-> request.requestTimestamp,
     completed |-> request.completed,
     refunded |-> request.refunded,
     canClaimTimeout |->
        /\ ~request.completed
        /\ ~request.refunded
        /\ now > request.requestTimestamp + VERIFICATION_TIMEOUT]

\* getDisputeCount(_workId): the length of the work's dispute list; the call
\* reverts for an id that names no work.
getDisputeCountRevert(workId) ==
    IF ~validWorkId(workId) THEN "AC: Invalid work ID" ELSE "ok"

getDisputeCount(workId) ==
    IF getDisputeCountRevert(workId) = "ok"
    THEN Len(disputes[workId])
    ELSE getDisputeCountRevert(workId)

\* ----------------------------------------------------------- test helpers
\* setTesting(bool enabled) external onlyOwner.
setTestingRevert(sender, enabled) ==
    IF ~onlyOwner(sender) THEN "AC: Not authorized"
    ELSE "ok"

setTesting(sender, enabled) ==
    /\ setTestingRevert(sender, enabled) = "ok"
    /\ isTesting' = enabled
    /\ UNCHANGED <<owner, workCounter, registrationFee, paused, platformFees,
                   works, disputes, authors, authorWorks,
                   verificationRequests, pendingDecryptions, pendingRefunds,
                   verificationRequestCounter, locked, balance, now,
                   blockNumber, counterRequest, oracleCleartexts,
                   paidVerification, paidDispute, received, credited,
                   withdrawn, callStack, limits, v1, probe>>

\* testingSimulateVerificationCallback without its require(isTesting).
testingSimulateVerificationCallbackRevert_NoTestingCheck(sender, requestId, isMatch) ==
    IF ~onlyOwner(sender) THEN "AC: Not authorized"
    ELSE IF verificationRequests[requestId].completed THEN "AC: Already processed"
    ELSE "ok"

testingSimulateVerificationCallbackRevert(sender, requestId, isMatch) ==
    IF ~onlyOwner(sender) THEN "AC: Not authorized"
    ELSE IF ~isTesting THEN "AC: Testing disabled"
    ELSE IF verificationRequests[requestId].completed THEN "AC: Already processed"
    ELSE "ok"

testingSimulateVerificationCallback(sender, requestId, isMatch) ==
    /\ testingSimulateVerificationCallbackRevert(sender, requestId, isMatch) = "ok"
    /\ limits.simulations > 0
    /\ LET request == verificationRequests[requestId]
       IN  /\ verificationRequests' =
                 [verificationRequests EXCEPT ![requestId].completed = TRUE]
           /\ works' = IF isMatch
                       THEN [works EXCEPT ![request.workId].verified = TRUE]
                       ELSE works
           /\ pendingRefunds' =
                 IF request.depositAmount > 0
                 THEN [pendingRefunds EXCEPT ![request.requester] = @ + request.depositAmount]
                 ELSE pendingRefunds
           /\ credited' =
                 IF request.depositAmount > 0
                 THEN [credited EXCEPT ![request.requester] = @ + request.depositAmount]
                 ELSE credited
           /\ paidVerification' =
                 [paidVerification EXCEPT ![requestId] = @ + request.depositAmount]
    /\ limits' = [limits EXCEPT !.simulations = @ - 1]
    /\ UNCHANGED <<owner, workCounter, registrationFee, paused, isTesting,
                   platformFees, disputes, authors, authorWorks,
                   pendingDecryptions, verificationRequestCounter, locked,
                   balance, now, blockNumber, counterRequest,
                   oracleCleartexts, paidDispute, received, withdrawn,
                   callStack, v1, probe>>

testingSimulateDisputeCallbackRevert(sender, workId, disputeId, winner) ==
    IF ~onlyOwner(sender) THEN "AC: Not authorized"
    ELSE IF ~isTesting THEN "AC: Testing disabled"
    ELSE IF ~DisputeExists(workId, disputeId) THEN "AC: Invalid dispute ID"
    ELSE IF DisputeAt(workId, disputeId).resolved THEN "AC: Already resolved"
    ELSE "ok"

testingSimulateDisputeCallback(sender, workId, disputeId, winner) ==
    /\ testingSimulateDisputeCallbackRevert(sender, workId, disputeId, winner) = "ok"
    /\ limits.simulations > 0
    /\ LET dispute == DisputeAt(workId, disputeId)
       IN  /\ disputes' = [disputes EXCEPT ![workId][disputeId + 1].resolved = TRUE,
                                           ![workId][disputeId + 1].winner = winner]
           /\ pendingRefunds' =
                 IF dispute.depositAmount > 0
                 THEN [pendingRefunds EXCEPT ![winner] = @ + dispute.depositAmount]
                 ELSE pendingRefunds
           /\ credited' =
                 IF dispute.depositAmount > 0
                 THEN [credited EXCEPT ![winner] = @ + dispute.depositAmount]
                 ELSE credited
           /\ paidDispute' =
                 [paidDispute EXCEPT ![workId][disputeId + 1] = @ + dispute.depositAmount]
    /\ limits' = [limits EXCEPT !.simulations = @ - 1]
    /\ UNCHANGED <<owner, workCounter, registrationFee, paused, isTesting,
                   platformFees, works, authors, authorWorks,
                   verificationRequests, pendingDecryptions,
                   verificationRequestCounter, locked, balance, now,
                   blockNumber, counterRequest, oracleCleartexts,
                   paidVerification, received, withdrawn, callStack, v1,
                   probe>>

\* ------------------------------------------- transfers to running code
\* A return from the transfer that leaves _locked set.
TransferReturns_KeepsLock ==
    /\ ~NoCallInFlight
    /\ callStack' = SubSeq(callStack, 1, Len(callStack) - 1)
    /\ locked' = locked
    /\ UNCHANGED <<owner, workCounter, registrationFee, paused, isTesting,
                   platformFees, works, disputes, authors, authorWorks,
                   verificationRequests, pendingDecryptions, pendingRefunds,
                   verificationRequestCounter, balance, now, blockNumber,
                   counterRequest, oracleCleartexts, paidVerification,
                   paidDispute, probe, received, credited, withdrawn, limits, v1>>

\* The recipient's code returns: require(sent) passes, the event is emitted
\* and the noReentrancy modifier clears _locked.
TransferReturns ==
    /\ ~NoCallInFlight
    /\ callStack' = SubSeq(callStack, 1, Len(callStack) - 1)
    /\ locked' = FALSE
    /\ UNCHANGED <<owner, workCounter, registrationFee, paused, isTesting,
                   platformFees, works, disputes, authors, authorWorks,
                   verificationRequests, pendingDecryptions, pendingRefunds,
                   verificationRequestCounter, balance, now, blockNumber,
                   counterRequest, oracleCleartexts, paidVerification,
                   paidDispute, probe, received, credited, withdrawn, limits, v1>>

\* ============================================ AnonymousCopyright (earlier)
\* The functions of the earlier contract; its storage is the record v1.
V1Unchanged ==
    UNCHANGED <<owner, workCounter, registrationFee, paused, isTesting,
                platformFees, works, disputes, authors, authorWorks,
                verificationRequests, pendingDecryptions, pendingRefunds,
                verificationRequestCounter, locked, balance, now, blockNumber,
                counterRequest, oracleCleartexts, paidVerification, paidDispute,
                received, credited, withdrawn, limits, probe>>

\* Works, disputes and oracle requests the earlier contract created so far.
V1RecordsCreated ==
    v1.workCounter
       + Cardinality(UNION {{<<w, i>> : i \in 1..Len(v1.disputes[w])} : w \in WorkIds})
       + (v1.counterRequest - 1)

V1_setVerificationFeeRevert(sender, newFee) ==
    IF ~(sender = v1.owner) THEN "Not authorized"
    ELSE IF ~(newFee <= V1_MAX_VERIFICATION_FEE) THEN "Fee too high"
    ELSE "ok"

V1_setVerificationFee(sender, newFee) ==
    /\ V1_setVerificationFeeRevert(sender, newFee) = "ok"
    /\ v1' = [v1 EXCEPT !.verificationFee = newFee]
    /\ UNCHANGED callStack
    /\ V1Unchanged

V1_registerAuthorRevert(sender, authorId) ==
    IF v1.authors[sender].registered THEN "Already registered"
    ELSE IF ~(authorId > 0) THEN "Invalid author ID"
    ELSE "ok"

V1_registerAuthor(sender, authorId) ==
    /\ V1_registerAuthorRevert(sender, authorId) = "ok"
    /\ v1' = [v1 EXCEPT !.authors[sender] =
                [authorId |-> authorId, registered |-> TRUE, workCount |-> 0,
                 totalDisputes |-> 0, wonDisputes |-> 0]]
    /\ UNCHANGED callStack
    /\ V1Unchanged

V1_registerWorkRevert(sender, contentHash, titleLen, categoryLen) ==
    IF ~v1.authors[sender].registered THEN "Author not registered"
    ELSE IF ~(titleLen > 0) THEN "Title required"
    ELSE IF ~(titleLen <= V1_MAX_TITLE_LENGTH) THEN "Title too long"
    ELSE IF ~(categoryLen > 0) THEN "Category required"
    ELSE IF ~(categoryLen <= V1_MAX_CATEGORY_LENGTH) THEN "Category too long"
    ELSE IF ~(contentHash > 0) THEN "Invalid content hash"
    ELSE "ok"

V1_registerWork(sender, contentHash, titleLen, categoryLen) ==
    /\ V1_registerWorkRevert(sender, contentHash, titleLen, categoryLen) = "ok"
    /\ v1.workCounter < limits.works
    /\ v1' = [v1 EXCEPT
                !.workCounter = @ + 1,
                !.works[v1.workCounter + 1] =
                   [contentHash |-> contentHash, registrant |-> sender,
                    timestamp |-> now, verified |-> FALSE, disputed |-> FALSE,
                    disputeCount |-> 0],
                !.authors[sender].workCount = @ + 1]
    /\ UNCHANGED callStack
    /\ V1Unchanged

V1_requestVerifyWorkRevert(sender, workId, contentHashToVerify, value) ==
    IF ~(workId > 0 /\ workId <= v1.workCounter) THEN "Invalid work ID"
    ELSE IF ~(value = v1.verificationFee) THEN "Incorrect verification fee"
    ELSE IF ~(contentHashToVerify > 0) THEN "Invalid content hash"
    ELSE "ok"

V1_requestVerifyWork(sender, workId, contentHashToVerify, value) ==
    /\ V1_requestVerifyWorkRevert(sender, workId, contentHashToVerify, value) = "ok"
    /\ v1.counterRequest <= limits.requests
    /\ LET requestId == v1.counterRequest
           isMatch == v1.works[workId].contentHash = contentHashToVerify
       IN  v1' = [v1 EXCEPT
                    !.counterRequest = @ + 1,
                    !.oracleCleartexts[requestId] = <<EncodeBool(isMatch)>>,
                    !.verificationRequests[requestId] =
                       [workId |-> workId, requester |-> sender, timestamp |-> now,
                        decryptionRequestId |-> requestId, processed |-> FALSE,
                        feePaid |-> TRUE],
                    !.balance = @ + value,
                    !.valuePaid[requestId] = value]
    /\ UNCHANGED callStack
    /\ V1Unchanged

\* FHE.checkSignatures for the earlier contract's requests.
V1_checkSignatures(requestId, cleartexts, decryptionProof) ==
    /\ decryptionProof.signer = "oracle"
    /\ v1.oracleCleartexts[decryptionProof.requestId] # <<>>
    /\ decryptionProof.cleartexts = v1.oracleCleartexts[decryptionProof.requestId]
    /\ decryptionProof.requestId = requestId
    /\ decryptionProof.cleartexts = cleartexts

V1_processVerificationCallbackRevert(requestId, cleartexts, decryptionProof) ==
    IF ~V1_checkSignatures(requestId, cleartexts, decryptionProof) THEN "InvalidKMSSignatures"
    ELSE IF v1.verificationRequests[requestId].processed THEN "Already processed"
    ELSE IF ~(v1.verificationRequests[requestId].requester # ZeroAddress) THEN "Invalid request"
    ELSE IF ~CanDecodeBool(cleartexts) THEN "abi.decode"
    ELSE "ok"

V1_processVerificationCallback(requestId, cleartexts, decryptionProof) ==
    /\ V1_processVerificationCallbackRevert(requestId, cleartexts, decryptionProof) = "ok"
    /\ v1' = [v1 EXCEPT !.verificationRequests[requestId].processed = TRUE]
    /\ UNCHANGED callStack
    /\ V1Unchanged

V1_claimVerificationRefundRevert(sender, requestId) ==
    LET request == v1.verificationRequests[requestId] IN
    IF v1.locked THEN "Reentrancy detected"
    ELSE IF ~(request.requester = sender) THEN "Not requester"
    ELSE IF ~request.feePaid THEN "No fee paid"
    ELSE IF ~(~request.processed /\ now > request.timestamp + VERIFICATION_TIMEOUT)
         THEN "Cannot refund yet"
    ELSE "ok"

V1_claimVerificationRefund(sender, requestId) ==
    /\ V1_claimVerificationRefundRevert(sender, requestId) = "ok"
    /\ v1' = [v1 EXCEPT
                !.verificationRequests[requestId].feePaid = FALSE,
                !.pendingRefunds[sender] = @ + v1.verificationFee,
                !.refunds[requestId] = Append(@,
                   [amount |-> v1.verificationFee,
                    processed |-> v1.verificationRequests[requestId].processed])]
    /\ UNCHANGED callStack
    /\ V1Unchanged

V1_withdrawRefundRevert(sender, accepts) ==
    IF v1.locked THEN "Reentrancy detected"
    ELSE IF ~(v1.pendingRefunds[sender] > 0) THEN "No refund available"
    ELSE IF ~(accepts /\ v1.balance >= v1.pendingRefunds[sender]) THEN "Refund transfer failed"
    ELSE "ok"

\* withdrawRefund up to and including its payable(msg.sender).call: locked is
\* set, the balance is zeroed, the value has moved and the recipient's code
\* runs; V1_TransferReturns is its return.
V1_withdrawRefund(sender, accepts) ==
    /\ V1_withdrawRefundRevert(sender, accepts) = "ok"
    /\ Len(callStack) < MaxCallDepth
    /\ v1' = [v1 EXCEPT !.pendingRefunds[sender] = 0,
                        !.balance = @ - v1.pendingRefunds[sender],
                        !.locked = TRUE]
    /\ callStack' = Append(callStack,
          Frame("V1_withdrawRefund", sender, v1.pendingRefunds[sender]))
    /\ V1Unchanged

\* The recipient's code returns: require(sent) passes and noReentrant clears
\* locked.
V1_TransferReturns ==
    /\ ~NoCallInFlight
    /\ callStack[Len(callStack)].fn = "V1_withdrawRefund"
    /\ callStack' = SubSeq(callStack, 1, Len(callStack) - 1)
    /\ v1' = [v1 EXCEPT !.locked = FALSE]
    /\ V1Unchanged

V1_fileDisputeRevert(sender, workId, challengerContentHash) ==
    IF ~v1.authors[sender].registered THEN "Author not registered"
    ELSE IF ~(workId > 0 /\ workId <= v1.workCounter) THEN "Invalid work ID"
    ELSE IF ~(v1.works[workId].registrant # sender) THEN "Cannot dispute own work"
    ELSE "ok"

\* The DisputeRecord literal names five of the seven fields; the other two,
\* decryptionRequestId and timeoutClaimed, hold their zero values.
V1_fileDispute(sender, workId, challengerContentHash) ==
    /\ V1_fileDisputeRevert(sender, workId, challengerContentHash) = "ok"
    /\ V1RecordsCreated < limits.records
    /\ LET registrant == v1.works[workId].registrant
       IN  v1' = [v1 EXCEPT
                    !.disputes[workId] = Append(@,
                       [challenger |-> sender,
                        challengerContentHash |-> challengerContentHash,
                        timestamp |-> now, resolved |-> FALSE,
                        winner |-> ZeroAddress, decryptionRequestId |-> 0,
                        timeoutClaimed |-> FALSE]),
                    !.works[workId].disputed = TRUE,
                    !.works[workId].disputeCount = @ + 1,
                    !.authors = [a \in Addresses |->
                       [@[a] EXCEPT !.totalDisputes =
                          @ + (IF a = sender THEN 1 ELSE 0)
                            + (IF a = registrant THEN 1 ELSE 0)]]]
    /\ UNCHANGED callStack
    /\ V1Unchanged

V1_resolveDisputeRevert(sender, workId, disputeId) ==
    IF ~(workId > 0 /\ workId <= v1.workCounter) THEN "Invalid work ID"
    ELSE IF ~(disputeId < Len(v1.disputes[workId])) THEN "Invalid dispute ID"
    ELSE IF v1.disputes[workId][disputeId + 1].resolved THEN "Dispute already resolved"
    ELSE "ok"

\* resolveDispute asks the oracle to decrypt the two hashes, which takes the
\* oracle's next request id; the id is stored nowhere in the contract.
V1_resolveDispute(sender, workId, disputeId) ==
    /\ V1_resolveDisputeRevert(sender, workId, disputeId) = "ok"
    /\ v1.counterRequest <= limits.requests
    /\ v1' = [v1 EXCEPT
                !.counterRequest = @ + 1,
                !.oracleCleartexts[v1.counterRequest] =
                   <<v1.works[workId].contentHash,
                     v1.disputes[workId][disputeId + 1].challengerContentHash>>]
    /\ UNCHANGED callStack
    /\ V1Unchanged

\* processDisputeResolution computes a winner in a local variable and writes
\* nothing.
V1_processDisputeResolution(sender, requestId, originalHash, challengerHash) ==
    /\ v1' = v1
    /\ UNCHANGED callStack
    /\ V1Unchanged

V1_markWorkAsVerifiedRevert(sender, workId) ==
    IF ~(sender = v1.owner) THEN "Not authorized"
    ELSE IF ~(workId > 0 /\ workId <= v1.workCounter) THEN "Invalid work ID"
    ELSE "ok"

V1_markWorkAsVerified(sender, workId) ==
    /\ V1_markWorkAsVerifiedRevert(sender, workId) = "ok"
    /\ v1' = [v1 EXCEPT !.works[workId].verified = TRUE]
    /\ UNCHANGED callStack
    /\ V1Unchanged

\* ------------------------------------------------------------ next state
\* A callback whose proof does not cover the request id and the cleartexts it
\* is called with reverts in checkSignatures, so the callbacks that commit are
\* those called with the signed request id and cleartexts of their proof.
Next ==
    \/ \E sender \in Accounts : pause(sender)
    \/ \E sender \in Accounts : unpause(sender)
    \/ \E sender \in Accounts, to \in Addresses, accepts \in BOOLEAN :
          withdrawPlatformFees(sender, to, accepts)
    \/ \E sender \in Users, authorId \in AuthorIdValues :
          registerAuthor(sender, authorId)
    \/ \E sender \in Registrants, contentHash \in WorkHashValues,
          titleLen \in TitleLengths, categoryLen \in CategoryLengths,
          value \in RegistrationValues :
          registerWork(sender, contentHash, titleLen, categoryLen, value)
    \/ \E sender \in Requesters, workId \in WorkIds, contentHash \in HashValues,
          value \in VerificationValues :
          requestVerifyWork(sender, workId, contentHash, value)
    \/ \E proof \in Proofs :
          verificationCallback(proof.requestId, proof.cleartexts, proof)
    \/ \E sender \in Accounts, requestId \in RequestIds, accepts \in BOOLEAN :
          claimVerificationTimeout(sender, requestId, accepts)
    \/ \E sender \in Accounts, accepts \in BOOLEAN : withdrawRefund(sender, accepts)
    \/ \E sender \in Users, workId \in WorkIds, contentHash \in HashValues,
          value \in DisputeValues :
          fileDispute(sender, workId, contentHash, value)
    \/ \E sender \in Accounts, workId \in WorkIds, disputeId \in DisputeIds :
          requestDisputeResolution(sender, workId, disputeId)
    \/ \E proof \in Proofs :
          disputeResolutionCallback(proof.requestId, proof.cleartexts, proof)
    \/ \E sender \in Accounts, workId \in WorkIds, disputeId \in DisputeIds,
          accepts \in BOOLEAN :
          claimDisputeTimeout(sender, workId, disputeId, accepts)
    \/ \E sender \in Accounts, workId \in WorkIds : markWorkAsVerified(sender, workId)
    \/ \E sender \in Accounts, enabled \in BOOLEAN : setTesting(sender, enabled)
    \/ \E sender \in Accounts, requestId \in RequestIds, isMatch \in BOOLEAN :
          testingSimulateVerificationCallback(sender, requestId, isMatch)
    \/ \E sender \in Accounts, workId \in WorkIds, disputeId \in DisputeIds,
          winner \in Addresses :
          testingSimulateDisputeCallback(sender, workId, disputeId, winner)
    \/ \E step \in TimeSteps : AdvanceTime(step)
    \/ TransferReturns
    \/ \E sender \in Accounts, newFee \in NewFeeValues : setRegistrationFee(sender, newFee)
    \/ \E sender \in Accounts, value \in PlainTransferValues : receive(sender, value)

Spec == Init /\ [][Next]_vars

\* The verification machine with the escrow ledger and the clock.
NextVerification ==
    \/ \E sender \in Registrants, authorId \in AuthorIdValues :
          registerAuthor(sender, authorId)
    \/ \E sender \in Registrants, contentHash \in WorkHashValues,
          titleLen \in TitleLengths, categoryLen \in CategoryLengths,
          value \in RegistrationValues :
          registerWork(sender, contentHash, titleLen, categoryLen, value)
    \/ \E sender \in Requesters, workId \in WorkIds, contentHash \in HashValues,
          value \in VerificationValues :
          requestVerifyWork(sender, workId, contentHash, value)
    \/ \E proof \in Proofs :
          verificationCallback(proof.requestId, proof.cleartexts, proof)
    \/ \E sender \in Accounts, requestId \in RequestIds, accepts \in BOOLEAN :
          claimVerificationTimeout(sender, requestId, accepts)
    \/ \E sender \in Accounts, accepts \in BOOLEAN : withdrawRefund(sender, accepts)
    \/ \E step \in VerificationTimeSteps : AdvanceTime(step)
    \/ TransferReturns
    \/ \E sender \in Accounts, value \in PlainTransferValues : receive(sender, value)

SpecVerification == Init /\ [][NextVerification]_vars

\* The dispute machine with the escrow ledger and the clock.
NextDispute ==
    \/ \E sender \in Users, authorId \in AuthorIdValues :
          registerAuthor(sender, authorId)
    \/ \E sender \in Registrants, contentHash \in WorkHashValues,
          titleLen \in TitleLengths, categoryLen \in CategoryLengths,
          value \in RegistrationValues :
          registerWork(sender, contentHash, titleLen, categoryLen, value)
    \/ \E sender \in Users, workId \in WorkIds, contentHash \in HashValues,
          value \in DisputeValues :
          fileDispute(sender, workId, contentHash, value)
    \/ \E sender \in Accounts, workId \in WorkIds, disputeId \in DisputeIds :
          requestDisputeResolution(sender, workId, disputeId)
    \/ \E proof \in Proofs :
          disputeResolutionCallback(proof.requestId, proof.cleartexts, proof)
    \/ \E sender \in Accounts, workId \in WorkIds, disputeId \in DisputeIds,
          accepts \in BOOLEAN :
          claimDisputeTimeout(sender, workId, disputeId, accepts)
    \/ \E sender \in Accounts, accepts \in BOOLEAN : withdrawRefund(sender, accepts)
    \/ \E step \in DisputeTimeSteps : AdvanceTime(step)
    \/ TransferReturns

SpecDispute == Init /\ [][NextDispute]_vars

\* Both machines together, without the admin surface.
NextMachines ==
    \/ \E sender \in Users, authorId \in AuthorIdValues :
          registerAuthor(sender, authorId)
    \/ \E sender \in Registrants, contentHash \in WorkHashValues,
          titleLen \in TitleLengths, categoryLen \in CategoryLengths,
          value \in RegistrationValues :
          registerWork(sender, contentHash, titleLen, categoryLen, value)
    \/ \E sender \in Requesters, workId \in WorkIds, contentHash \in HashValues,
          value \in VerificationValues :
          requestVerifyWork(sender, workId, contentHash, value)
    \/ \E proof \in Proofs :
          verificationCallback(proof.requestId, proof.cleartexts, proof)
    \/ \E sender \in Accounts, requestId \in RequestIds, accepts \in BOOLEAN :
          claimVerificationTimeout(sender, requestId, accepts)
    \/ \E sender \in Users, workId \in WorkIds, contentHash \in HashValues,
          value \in DisputeValues :
          fileDispute(sender, workId, contentHash, value)
    \/ \E sender \in Accounts, workId \in WorkIds, disputeId \in DisputeIds :
          requestDisputeResolution(sender, workId, disputeId)
    \/ \E proof \in Proofs :
          disputeResolutionCallback(proof.requestId, proof.cleartexts, proof)
    \/ \E sender \in Accounts, workId \in WorkIds, disputeId \in DisputeIds,
          accepts \in BOOLEAN :
          claimDisputeTimeout(sender, workId, disputeId, accepts)
    \/ \E sender \in Accounts, accepts \in BOOLEAN : withdrawRefund(sender, accepts)
    \/ \E step \in TimeSteps : AdvanceTime(step)
    \/ TransferReturns

SpecMachines == Init /\ [][NextMachines]_vars

\* Both machines on a clock that advances past both timeout windows in one
\* block, on the smaller budget.
TimeoutLimits ==
    [records |-> MaxTimeoutRecords, works |-> MaxTimeoutRecords,
     requests |-> MaxTimeoutRecords, blocks |-> MaxTimeoutBlocks,
     registrationBlock |-> MaxRegistrationBlock,
     plainTransfers |-> 0,
     simulations |-> 0]

InitTimeouts ==
    /\ InitContract
    /\ limits = TimeoutLimits
    /\ probe = <<>>

\* The same budget with the owner's test helpers: so many simulated
\* callbacks; authors and works are registered in the deployment block.
TimeoutTestingLimits ==
    [records |-> MaxTimeoutRecords, works |-> MaxTimeoutRecords,
     requests |-> MaxTimeoutRecords, blocks |-> MaxTimeoutBlocks,
     registrationBlock |-> 0,
     plainTransfers |-> 0,
     simulations |-> MaxSimulations]

InitTimeoutsTesting ==
    /\ InitContract
    /\ limits = TimeoutTestingLimits
    /\ probe = <<>>

NextTimeouts ==
    \/ \E sender \in Users, authorId \in AuthorIdValues :
          registerAuthor(sender, authorId)
    \/ \E sender \in Registrants, contentHash \in WorkHashValues,
          titleLen \in TitleLengths, categoryLen \in CategoryLengths,
          value \in RegistrationValues :
          registerWork(sender, contentHash, titleLen, categoryLen, value)
    \/ \E sender \in Requesters, workId \in WorkIds, contentHash \in WorkHashValues,
          value \in VerificationValues :
          requestVerifyWork(sender, workId, contentHash, value)
    \/ \E proof \in Proofs :
          verificationCallback(proof.requestId, proof.cleartexts, proof)
    \/ \E sender \in Accounts, requestId \in RequestIds, accepts \in BOOLEAN :
          claimVerificationTimeout(sender, requestId, accepts)
    \/ \E sender \in Users, workId \in WorkIds, contentHash \in WorkHashValues,
          value \in DisputeValues :
          fileDispute(sender, workId, contentHash, value)
    \/ \E sender \in Accounts, workId \in WorkIds, disputeId \in DisputeIds :
          requestDisputeResolution(sender, workId, disputeId)
    \/ \E proof \in Proofs :
          disputeResolutionCallback(proof.requestId, proof.cleartexts, proof)
    \/ \E sender \in Accounts, workId \in WorkIds, disputeId \in DisputeIds,
          accepts \in BOOLEAN :
          claimDisputeTimeout(sender, workId, disputeId, accepts)
    \/ \E sender \in Accounts, accepts \in BOOLEAN : withdrawRefund(sender, accepts)
    \/ \E sender \in Accounts, enabled \in BOOLEAN : setTesting(sender, enabled)
    \/ \E sender \in Accounts, requestId \in RequestIds, isMatch \in BOOLEAN :
          testingSimulateVerificationCallback(sender, requestId, isMatch)
    \/ \E sender \in Accounts, workId \in WorkIds, disputeId \in DisputeIds,
          winner \in SimulatedWinners :
          testingSimulateDisputeCallback(sender, workId, disputeId, winner)
    \/ \E step \in PastTimeoutSteps : AdvanceTime(step)
    \/ TransferReturns

SpecTimeouts == InitTimeoutsTesting /\ [][NextTimeouts]_vars

\* Each machine alone on the smaller budget, on a clock whose one block ends
\* either exactly at the end of the timeout window or just past it.
NextVerificationWindow ==
    \/ \E sender \in Registrants, authorId \in AuthorIdValues :
          registerAuthor(sender, authorId)
    \/ \E sender \in Registrants, contentHash \in WorkHashValues,
          titleLen \in TitleLengths, categoryLen \in CategoryLengths,
          value \in RegistrationValues :
          registerWork(sender, contentHash, titleLen, categoryLen, value)
    \/ \E sender \in Requesters, workId \in WorkIds, contentHash \in HashValues,
          value \in VerificationValues :
          requestVerifyWork(sender, workId, contentHash, value)
    \/ \E proof \in Proofs :
          verificationCallback(proof.requestId, proof.cleartexts, proof)
    \/ \E sender \in Accounts, requestId \in RequestIds, accepts \in BOOLEAN :
          claimVerificationTimeout(sender, requestId, accepts)
    \/ \E sender \in Accounts, accepts \in BOOLEAN : withdrawRefund(sender, accepts)
    \/ \E step \in VerificationBoundarySteps : AdvanceTime(step)
    \/ TransferReturns

SpecVerificationWindow == InitTimeouts /\ [][NextVerificationWindow]_vars

\* The dispute machine at the edges of the dispute window, with the owner's
\* testing switch and simulated dispute callback, which close a dispute
\* without the oracle.
NextDisputeWindow ==
    \/ \E sender \in Users, authorId \in AuthorIdValues :
          registerAuthor(sender, authorId)
    \/ \E sender \in Registrants, contentHash \in WorkHashValues,
          titleLen \in TitleLengths, categoryLen \in CategoryLengths,
          value \in RegistrationValues :
          registerWork(sender, contentHash, titleLen, categoryLen, value)
    \/ \E sender \in Users, workId \in WorkIds, contentHash \in HashValues,
          value \in DisputeValues :
          fileDispute(sender, workId, contentHash, value)
    \/ \E sender \in Accounts, workId \in WorkIds, disputeId \in DisputeIds :
          requestDisputeResolution(sender, workId, disputeId)
    \/ \E proof \in Proofs :
          disputeResolutionCallback(proof.requestId, proof.cleartexts, proof)
    \/ \E sender \in Accounts, workId \in WorkIds, disputeId \in DisputeIds,
          accepts \in BOOLEAN :
          claimDisputeTimeout(sender, workId, disputeId, accepts)
    \/ \E sender \in Accounts, accepts \in BOOLEAN : withdrawRefund(sender, accepts)
    \/ \E sender \in Accounts, enabled \in BOOLEAN : setTesting(sender, enabled)
    \/ \E sender \in Accounts, workId \in WorkIds, disputeId \in DisputeIds,
          winner \in SimulatedWinners :
          testingSimulateDisputeCallback(sender, workId, disputeId, winner)
    \/ \E step \in DisputeBoundarySteps : AdvanceTime(step)
    \/ TransferReturns

SpecDisputeWindow == InitTimeoutsTesting /\ [][NextDisputeWindow]_vars

\* Both machines and the fee withdrawal, with every transfer made to a
\* recipient whose code runs and may call back, on the smaller budget;
\* authors and works are registered in the deployment block.
ReentrancyLimits ==
    [records |-> MaxTimeoutRecords, works |-> MaxTimeoutRecords,
     requests |-> MaxTimeoutRecords, blocks |-> MaxTimeoutBlocks,
     registrationBlock |-> 0,
     plainTransfers |-> 0,
     simulations |-> 0]

InitReentrancy ==
    /\ InitContract
    /\ limits = ReentrancyLimits
    /\ probe = <<>>

NextReentrancy ==
    \/ \E sender \in Users, authorId \in AuthorIdValues :
          registerAuthor(sender, authorId)
    \/ \E sender \in Registrants, contentHash \in WorkHashValues,
          titleLen \in TitleLengths, categoryLen \in CategoryLengths,
          value \in RegistrationValues :
          registerWork(sender, contentHash, titleLen, categoryLen, value)
    \/ \E sender \in Requesters, workId \in WorkIds, contentHash \in WorkHashValues,
          value \in VerificationValues :
          requestVerifyWork(sender, workId, contentHash, value)
    \/ \E proof \in Proofs :
          verificationCallback(proof.requestId, proof.cleartexts, proof)
    \/ \E sender \in Users, workId \in WorkIds, contentHash \in WorkHashValues,
          value \in DisputeValues :
          fileDispute(sender, workId, contentHash, value)
    \/ \E sender \in Accounts, workId \in WorkIds, disputeId \in DisputeIds :
          requestDisputeResolution(sender, workId, disputeId)
    \/ \E proof \in Proofs :
          disputeResolutionCallback(proof.requestId, proof.cleartexts, proof)
    \/ \E sender \in Accounts, to \in FeeRecipients, accepts \in BOOLEAN :
          withdrawPlatformFees(sender, to, accepts)
    \/ \E sender \in Accounts, requestId \in RequestIds, accepts \in BOOLEAN :
          claimVerificationTimeout(sender, requestId, accepts)
    \/ \E sender \in Accounts, workId \in WorkIds, disputeId \in DisputeIds,
          accepts \in BOOLEAN :
          claimDisputeTimeout(sender, workId, disputeId, accepts)
    \/ \E sender \in Accounts, accepts \in BOOLEAN : withdrawRefund(sender, accepts)
    \/ TransferReturns
    \/ \E step \in PastTimeoutSteps : AdvanceTime(step)

SpecReentrancy == InitReentrancy /\ [][NextReentrancy]_vars

\* The same behaviours, for the claim about the proofs the callbacks accept.
SpecProofs == InitReentrancy /\ [][NextReentrancy]_vars

\* The registry alone: several authors register, and register works, before
\* and after the clock has advanced.
RegistryLimits ==
    [records |-> MaxTimeoutRecords, works |-> MaxTimeoutRecords, requests |-> 0,
     blocks |-> MaxTimeoutBlocks, registrationBlock |-> MaxTimeoutBlocks,
     plainTransfers |-> 0,
     simulations |-> 0]

InitRegistry ==
    /\ InitContract
    /\ limits = RegistryLimits
    /\ probe = <<>>

NextRegistry ==
    \/ \E sender \in Users, authorId \in AuthorIdValues :
          registerAuthor(sender, authorId)
    \/ \E sender \in Users, contentHash \in WorkHashValues,
          titleLen \in TitleLengths, categoryLen \in CategoryLengths,
          value \in RegistrationValues :
          registerWork(sender, contentHash, titleLen, categoryLen, value)
    \/ \E step \in VerificationTimeSteps : AdvanceTime(step)
    \/ \E sender \in Accounts, newFee \in NewFeeValues : setRegistrationFee(sender, newFee)

SpecRegistry == InitRegistry /\ [][NextRegistry]_vars

\* The verification machine with the owner's override of the verified flag,
\* on the smaller budget.
NextVerified ==
    \/ \E sender \in Registrants, authorId \in AuthorIdValues :
          registerAuthor(sender, authorId)
    \/ \E sender \in Registrants, contentHash \in WorkHashValues,
          titleLen \in TitleLengths, categoryLen \in CategoryLengths,
          value \in RegistrationValues :
          registerWork(sender, contentHash, titleLen, categoryLen, value)
    \/ \E sender \in Requesters, workId \in WorkIds, contentHash \in HashValues,
          value \in VerificationValues :
          requestVerifyWork(sender, workId, contentHash, value)
    \/ \E proof \in Proofs :
          verificationCallback(proof.requestId, proof.cleartexts, proof)
    \/ \E sender \in Accounts, requestId \in RequestIds, accepts \in BOOLEAN :
          claimVerificationTimeout(sender, requestId, accepts)
    \/ \E sender \in Accounts, accepts \in BOOLEAN : withdrawRefund(sender, accepts)
    \/ \E sender \in Accounts, workId \in WorkIds : markWorkAsVerified(sender, workId)
    \/ \E step \in VerificationBoundarySteps : AdvanceTime(step)
    \/ TransferReturns

SpecVerified == InitTimeouts /\ [][NextVerified]_vars

\* Both machines with the emergency pause, on the smaller budget.
NextPause ==
    \/ \E sender \in Accounts : pause(sender)
    \/ \E sender \in Accounts : unpause(sender)
    \/ \E sender \in Users, authorId \in AuthorIdValues :
          registerAuthor(sender, authorId)
    \/ \E sender \in Registrants, contentHash \in WorkHashValues,
          titleLen \in TitleLengths, categoryLen \in CategoryLengths,
          value \in RegistrationValues :
          registerWork(sender, contentHash, titleLen, categoryLen, value)
    \/ \E sender \in Requesters, workId \in WorkIds, contentHash \in WorkHashValues,
          value \in VerificationValues :
          requestVerifyWork(sender, workId, contentHash, value)
    \/ \E proof \in Proofs :
          verificationCallback(proof.requestId, proof.cleartexts, proof)
    \/ \E sender \in Accounts, requestId \in RequestIds, accepts \in BOOLEAN :
          claimVerificationTimeout(sender, requestId, accepts)
    \/ \E sender \in Users, workId \in WorkIds, contentHash \in WorkHashValues,
          value \in DisputeValues :
          fileDispute(sender, workId, contentHash, value)
    \/ \E sender \in Accounts, workId \in WorkIds, disputeId \in DisputeIds :
          requestDisputeResolution(sender, workId, disputeId)
    \/ \E proof \in Proofs :
          disputeResolutionCallback(proof.requestId, proof.cleartexts, proof)
    \/ \E sender \in Accounts, workId \in WorkIds, disputeId \in DisputeIds,
          accepts \in BOOLEAN :
          claimDisputeTimeout(sender, workId, disputeId, accepts)
    \/ \E sender \in Accounts, accepts \in BOOLEAN : withdrawRefund(sender, accepts)
    \/ \E step \in PastTimeoutSteps : AdvanceTime(step)
    \/ TransferReturns

SpecPause == InitTimeouts /\ [][NextPause]_vars

\* Verification requests with deposits at and above the minimum fee, made
\* before and after the clock has advanced, and their callbacks.
NextVerificationDeposits ==
    \/ \E sender \in Registrants, authorId \in AuthorIdValues :
          registerAuthor(sender, authorId)
    \/ \E sender \in Registrants, contentHash \in WorkHashValues,
          titleLen \in TitleLengths, categoryLen \in CategoryLengths,
          value \in RegistrationValues :
          registerWork(sender, contentHash, titleLen, categoryLen, value)
    \/ \E sender \in Requesters, workId \in WorkIds, contentHash \in HashValues,
          value \in VerificationDeposits :
          requestVerifyWork(sender, workId, contentHash, value)
    \/ \E proof \in Proofs :
          verificationCallback(proof.requestId, proof.cleartexts, proof)
    \/ \E step \in VerificationTimeSteps : AdvanceTime(step)

SpecVerificationDeposits == InitTimeouts /\ [][NextVerificationDeposits]_vars

\* The dispute machine without the clock, on a budget that lets a work's
\* dispute list fill up: the list is full after MAX_DISPUTES_PER_WORK
\* disputes and the budget has room for one more.
CapLimits ==
    [records |-> MaxCapWorks + MAX_DISPUTES_PER_WORK + 1 + MaxCapRequests,
     works |-> MaxCapWorks, requests |-> MaxCapRequests, blocks |-> 0,
     registrationBlock |-> MaxRegistrationBlock,
     plainTransfers |-> 0,
     simulations |-> 0]

InitDisputeCap ==
    /\ InitContract
    /\ limits = CapLimits
    /\ probe = <<>>

NextDisputeCap ==
    \/ \E sender \in Users, authorId \in AuthorIdValues :
          registerAuthor(sender, authorId)
    \/ \E sender \in Registrants, contentHash \in WorkHashValues,
          titleLen \in TitleLengths, categoryLen \in CategoryLengths,
          value \in RegistrationValues :
          registerWork(sender, contentHash, titleLen, categoryLen, value)
    \/ \E sender \in Users, workId \in WorkIds, contentHash \in WorkHashValues,
          value \in DisputeValues :
          fileDispute(sender, workId, contentHash, value)
    \/ \E sender \in Accounts, workId \in WorkIds, disputeId \in CapDisputeIds :
          requestDisputeResolution(sender, workId, disputeId)
    \/ \E proof \in Proofs :
          disputeResolutionCallback(proof.requestId, proof.cleartexts, proof)

SpecDisputeCap == InitDisputeCap /\ [][NextDisputeCap]_vars

\* Two works of one registrant, disputes of one challenger against them and
\* the three operations on a dispute, with a clock that passes the dispute
\* timeout.
PairLimits ==
    [records |-> MaxPairRecords, works |-> MaxPairWorks,
     requests |-> MaxPairRequests, blocks |-> MaxPairBlocks,
     registrationBlock |-> MaxRegistrationBlock,
     plainTransfers |-> 0,
     simulations |-> 0]

InitDisputePair ==
    /\ InitContract
    /\ limits = PairLimits
    /\ probe = <<>>

NextDisputePair ==
    \/ \E sender \in Users, authorId \in AuthorIdValues :
          registerAuthor(sender, authorId)
    \/ \E sender \in Registrants, contentHash \in WorkHashValues,
          titleLen \in TitleLengths, categoryLen \in CategoryLengths,
          value \in RegistrationValues :
          registerWork(sender, contentHash, titleLen, categoryLen, value)
    \/ \E sender \in Users, workId \in WorkIds, contentHash \in WorkHashValues,
          value \in DisputeValues :
          fileDispute(sender, workId, contentHash, value)
    \/ \E sender \in Requesters, workId \in WorkIds, disputeId \in DisputeIds :
          requestDisputeResolution(sender, workId, disputeId)
    \/ \E proof \in Proofs :
          disputeResolutionCallback(proof.requestId, proof.cleartexts, proof)
    \/ \E sender \in Accounts, workId \in WorkIds, disputeId \in DisputeIds,
          accepts \in BOOLEAN :
          claimDisputeTimeout(sender, workId, disputeId, accepts)
    \/ \E step \in PastTimeoutSteps : AdvanceTime(step)
    \/ TransferReturns

SpecDisputePair == InitDisputePair /\ [][NextDisputePair]_vars

\* The dispute operations together with the owner's testing switch and the
\* simulated dispute callback.  Authors and works are registered in the
\* deployment block; the disputes, not the registrations, are spread over time.
TestingLimits ==
    [records |-> MaxTimeoutRecords + 1, works |-> MaxCapWorks,
     requests |-> MaxPairRequests, blocks |-> MaxPairBlocks,
     registrationBlock |-> 0,
     plainTransfers |-> 0,
     simulations |-> EverySimulation]

InitDisputeTesting ==
    /\ InitContract
    /\ limits = TestingLimits
    /\ probe = <<>>

NextDisputeTesting ==
    \/ NextDisputePair
    \/ \E sender \in Accounts, enabled \in BOOLEAN : setTesting(sender, enabled)
    \/ \E sender \in Accounts, workId \in WorkIds, disputeId \in DisputeIds,
          winner \in SimulatedWinners :
          testingSimulateDisputeCallback(sender, workId, disputeId, winner)

SpecDisputeTesting == InitDisputeTesting /\ [][NextDisputeTesting]_vars

\* Works registered and disputes filed at different times, and the
\* resolution of the disputes.
OrderLimits ==
    [records |-> MaxTimeoutRecords + 1, works |-> MaxCapWorks,
     requests |-> MaxPairRequests, blocks |-> MaxPairBlocks,
     registrationBlock |-> MaxPairBlocks,
     plainTransfers |-> 0,
     simulations |-> 0]

InitDisputeOrder ==
    /\ InitContract
    /\ limits = OrderLimits
    /\ probe = <<>>

NextDisputeOrder ==
    \/ \E sender \in Users, authorId \in AuthorIdValues :
          registerAuthor(sender, authorId)
    \/ \E sender \in Registrants, contentHash \in WorkHashValues,
          titleLen \in TitleLengths, categoryLen \in CategoryLengths,
          value \in RegistrationValues :
          registerWork(sender, contentHash, titleLen, categoryLen, value)
    \/ \E sender \in Users, workId \in WorkIds, contentHash \in HashValues,
          value \in DisputeValues :
          fileDispute(sender, workId, contentHash, value)
    \/ \E sender \in Requesters, workId \in WorkIds, disputeId \in DisputeIds :
          requestDisputeResolution(sender, workId, disputeId)
    \/ \E proof \in Proofs :
          disputeResolutionCallback(proof.requestId, proof.cleartexts, proof)
    \/ \E step \in DisputeTimeSteps : AdvanceTime(step)

SpecDisputeOrder == InitDisputeOrder /\ [][NextDisputeOrder]_vars

\* Two authors who register works and dispute each other's.
BooksLimits ==
    [records |-> MaxPairRecords, works |-> MaxPairWorks, requests |-> 0,
     blocks |-> 0, registrationBlock |-> MaxRegistrationBlock,
     plainTransfers |-> 0,
     simulations |-> 0]

InitDisputeBooks ==
    /\ InitContract
    /\ limits = BooksLimits
    /\ probe = <<>>

NextDisputeBooks ==
    \/ \E sender \in Users, authorId \in AuthorIdValues :
          registerAuthor(sender, authorId)
    \/ \E sender \in Users, contentHash \in WorkHashValues,
          titleLen \in TitleLengths, categoryLen \in CategoryLengths,
          value \in RegistrationValues :
          registerWork(sender, contentHash, titleLen, categoryLen, value)
    \/ \E sender \in Users, workId \in WorkIds, contentHash \in HashValues,
          value \in DisputeValues :
          fileDispute(sender, workId, contentHash, value)

SpecDisputeBooks == InitDisputeBooks /\ [][NextDisputeBooks]_vars

\* The earlier contract: a work, paid verification requests, changes of the
\* fee, callbacks, refunds and withdrawals, with a clock that passes the
\* verification timeout.
V1Limits ==
    [records |-> MaxTimeoutRecords, works |-> MaxCapWorks,
     requests |-> MaxCapRequests, blocks |-> MaxTimeoutBlocks,
     registrationBlock |-> MaxRegistrationBlock,
     plainTransfers |-> 0,
     simulations |-> 0]

InitV1 ==
    /\ InitContract
    /\ limits = V1Limits
    /\ probe = <<>>

NextV1 ==
    \/ \E sender \in Users, authorId \in AuthorIdValues :
          V1_registerAuthor(sender, authorId)
    \/ \E sender \in Registrants, contentHash \in WorkHashValues,
          titleLen \in TitleLengths, categoryLen \in CategoryLengths :
          V1_registerWork(sender, contentHash, titleLen, categoryLen)
    \/ \E sender \in Accounts, newFee \in V1FeeValues :
          V1_setVerificationFee(sender, newFee)
    \/ \E sender \in Requesters, workId \in WorkIds, contentHash \in WorkHashValues,
          value \in V1RequestValues :
          V1_requestVerifyWork(sender, workId, contentHash, value)
    \/ \E proof \in Proofs :
          V1_processVerificationCallback(proof.requestId, proof.cleartexts, proof)
    \/ \E sender \in Accounts, requestId \in RequestIds :
          V1_claimVerificationRefund(sender, requestId)
    \/ \E sender \in Accounts, accepts \in BOOLEAN : V1_withdrawRefund(sender, accepts)
    \/ V1_TransferReturns
    \/ \E sender \in Users, workId \in WorkIds, contentHash \in WorkHashValues :
          V1_fileDispute(sender, workId, contentHash)
    \/ \E sender \in Accounts, workId \in WorkIds, disputeId \in DisputeIds :
          V1_resolveDispute(sender, workId, disputeId)
    \/ \E sender \in Accounts, requestId \in RequestIds,
          originalHash \in WorkHashValues, challengerHash \in WorkHashValues :
          V1_processDisputeResolution(sender, requestId, originalHash, challengerHash)
    \/ \E sender \in Accounts, workId \in WorkIds :
          V1_markWorkAsVerified(sender, workId)
    \/ \E step \in VerificationBoundarySteps : AdvanceTime(step)

SpecV1 == InitV1 /\ [][NextV1]_vars

\* Verification requests and disputes finalized by the oracle's callbacks
\* or by the owner's simulated callbacks, with the testing switch.
TestingModeLimits ==
    [records |-> MaxTimeoutRecords, works |-> MaxCapWorks,
     requests |-> MaxCapRequests, blocks |-> 0,
     registrationBlock |-> MaxRegistrationBlock,
     plainTransfers |-> 0,
     simulations |-> EverySimulation]

InitTestingMode ==
    /\ InitContract
    /\ limits = TestingModeLimits
    /\ probe = <<>>

NextTestingMode ==
    \/ \E sender \in Users, authorId \in AuthorIdValues :
          registerAuthor(sender, authorId)
    \/ \E sender \in Registrants, contentHash \in WorkHashValues,
          titleLen \in TitleLengths, categoryLen \in CategoryLengths,
          value \in RegistrationValues :
          registerWork(sender, contentHash, titleLen, categoryLen, value)
    \/ \E sender \in Requesters, workId \in WorkIds, contentHash \in WorkHashValues,
          value \in VerificationValues :
          requestVerifyWork(sender, workId, contentHash, value)
    \/ \E proof \in Proofs :
          verificationCallback(proof.requestId, proof.cleartexts, proof)
    \/ \E sender \in Users, workId \in WorkIds, contentHash \in WorkHashValues,
          value \in DisputeValues :
          fileDispute(sender, workId, contentHash, value)
    \/ \E sender \in Requesters, workId \in WorkIds, disputeId \in DisputeIds :
          requestDisputeResolution(sender, workId, disputeId)
    \/ \E proof \in Proofs :
          disputeResolutionCallback(proof.requestId, proof.cleartexts, proof)
    \/ \E sender \in Accounts, enabled \in BOOLEAN : setTesting(sender, enabled)
    \/ \E sender \in Accounts, requestId \in SimulatedRequestIds,
          isMatch \in BOOLEAN :
          testingSimulateVerificationCallback(sender, requestId, isMatch)
    \/ \E sender \in Accounts, workId \in WorkIds, disputeId \in DisputeIds,
          winner \in SimulatedWinners :
          testingSimulateDisputeCallback(sender, workId, disputeId, winner)

SpecTestingMode == InitTestingMode /\ [][NextTestingMode]_vars

\* ------------------------------------------------- the winner rule alone
ProbeTimestamps == {50, 100, 150}
ProbeHashes == {1, 2, 3}

InitWinner ==
    /\ InitContract
    /\ limits = FullLimits
    /\ probe \in [originalHash : ProbeHashes, challengerHash : ProbeHashes,
                  workTimestamp : ProbeTimestamps,
                  disputeTimestamp : ProbeTimestamps,
                  registrant : {"alice"}, challenger : {"bob"},
                  applied : {FALSE}, winner : {ZeroAddress}]

\* The resolution step of disputeResolutionCallback on the probe's dispute:
\* the winner is determined and written with the resolved flag, and a winning
\* challenger's wonDisputes is incremented.
ApplyResolveWinner ==
    /\ ~probe.applied
    /\ probe' = [probe EXCEPT
                   !.applied = TRUE,
                   !.winner = ResolveWinner(probe.originalHash, probe.challengerHash,
                                            probe.workTimestamp, probe.disputeTimestamp,
                                            probe.registrant, probe.challenger)]
    /\ authors' = IF probe.originalHash = probe.challengerHash
                      /\ ~(probe.workTimestamp <= probe.disputeTimestamp)
                   THEN [authors EXCEPT ![probe.challenger].wonDisputes = @ + 1]
                   ELSE authors
    /\ UNCHANGED <<owner, workCounter, registrationFee, paused, isTesting,
                   platformFees, works, disputes, authorWorks,
                   verificationRequests, pendingDecryptions, pendingRefunds,
                   verificationRequestCounter, locked, balance, now, blockNumber,
                   counterRequest, oracleCleartexts, paidVerification,
                   paidDispute,
                   received, credited, withdrawn, callStack, limits, v1>>

NextWinner == ApplyResolveWinner

SpecWinner == InitWinner /\ [][NextWinner]_vars

\* ================================================================ claims
\* A verification request that requestVerifyWork created.
RequestCreated(r) == verificationRequests[r].requester # ZeroAddress

\* State Requested: created, neither completed nor refunded.
Requested(r) ==
    /\ RequestCreated(r)
    /\ ~verificationRequests[r].completed
    /\ ~verificationRequests[r].refunded

\* C1: for every verification request, the callback and the timeout claim
\* finalize it exactly once between them: the total paid out for the request
\* (credit to pendingRefunds plus direct transfer) is its depositAmount once
\* the request is finalized, and nothing before.
C1_IdempotentFinalization ==
    \A r \in RequestIds :
        paidVerification[r] =
            IF verificationRequests[r].completed \/ verificationRequests[r].refunded
            THEN verificationRequests[r].depositAmount
            ELSE 0

\* C2: no verification request is both completed and refunded.
C2_CompletedRefundedExclusive ==
    \A r \in RequestIds :
        ~(verificationRequests[r].completed /\ verificationRequests[r].refunded)

\* C3: once a request was refunded by claimVerificationTimeout, no
\* verificationCallback for that request id is accepted any more, so the
\* request record and the amount paid out for it never change again.
C3_TimedOutIsSticky ==
    [][\A r \in RequestIds :
          verificationRequests[r].refunded =>
             /\ \A c \in Cleartexts, p \in Proofs :
                   ~verificationCallback(r, c, p)
             /\ verificationRequests'[r] = verificationRequests[r]
             /\ paidVerification'[r] = paidVerification[r]]_vars

\* C4: for every dispute, whatever requestDisputeResolution,
\* disputeResolutionCallback and claimDisputeTimeout calls were made, the
\* total paid out for the dispute is nothing while it is unresolved and
\* exactly its depositAmount, once, after it was finalized.
C4_NoDoublePayDispute ==
    \A w \in WorkIds : \A i \in 1..Len(disputes[w]) :
        /\ paidDispute[w][i] <= disputes[w][i].depositAmount
        /\ paidDispute[w][i] =
              IF disputes[w][i].resolved THEN disputes[w][i].depositAmount ELSE 0

\* C4 witness: a dispute for which two oracle requests were issued has been
\* finalized and paid.
C4_Witness ==
    \E w \in WorkIds : \E i \in 1..Len(disputes[w]) :
        /\ disputes[w][i].resolved
        /\ paidDispute[w][i] = disputes[w][i].depositAmount
        /\ disputes[w][i].depositAmount > 0
        /\ Cardinality({r \in RequestIds :
              /\ pendingDecryptions[r].decryptionType = "DisputeResolution"
              /\ pendingDecryptions[r].workId = w
              /\ pendingDecryptions[r].disputeId = i - 1}) >= 2

\* C5: for a request in state Requested, claimVerificationTimeout called by
\* its requester (who accepts the payment) succeeds exactly when the current
\* time is strictly greater than requestTimestamp + VERIFICATION_TIMEOUT.
C5_TimeoutIffWindowElapsed ==
    \A r \in RequestIds :
        Requested(r) =>
            ((claimVerificationTimeoutRevert(verificationRequests[r].requester, r, TRUE) = "ok")
               <=> (now > verificationRequests[r].requestTimestamp + VERIFICATION_TIMEOUT))

\* C6: the winner is the registrant when the hashes differ, the registrant
\* when they are equal and work.timestamp <= dispute.timestamp, and the
\* challenger when they are equal and dispute.timestamp < work.timestamp.
C6_WinnerRule ==
    (probe # <<>> /\ probe.applied) =>
        /\ (probe.originalHash # probe.challengerHash)
              => probe.winner = probe.registrant
        /\ (probe.originalHash = probe.challengerHash
              /\ probe.workTimestamp <= probe.disputeTimestamp)
              => probe.winner = probe.registrant
        /\ (probe.originalHash = probe.challengerHash
              /\ probe.disputeTimestamp < probe.workTimestamp)
              => probe.winner = probe.challenger

\* C6 witness: equal hashes, work 100 / dispute 50, the challenger has won.
C6_Witness ==
    /\ probe # <<>>
    /\ probe.applied
    /\ probe.originalHash = probe.challengerHash
    /\ probe.workTimestamp = 100
    /\ probe.disputeTimestamp = 50
    /\ probe.winner = probe.challenger

\* C7: once resolution of a dispute has been requested, its
\* decryptionRequestId and requestTimestamp never change again.
C7_ResolutionRequestedOnce ==
    [][\A w \in WorkIds : \A i \in 1..Len(disputes[w]) :
          disputes[w][i].decryptionRequestId # 0 =>
             /\ disputes'[w][i].decryptionRequestId = disputes[w][i].decryptionRequestId
             /\ disputes'[w][i].requestTimestamp = disputes[w][i].requestTimestamp]_vars

\* C8: a disputeResolutionCallback that is accepted carries the request id
\* currently stored in the dispute record it resolves.
C8_CallbackMatchesStoredId ==
    [][\A r \in RequestIds, c \in Cleartexts, p \in Proofs :
          disputeResolutionCallback(r, c, p) =>
             DisputeAt(pendingDecryptions[r].workId,
                       pendingDecryptions[r].disputeId).decryptionRequestId = r]_vars

\* The challenger's claimDisputeTimeout would be accepted now.
DisputeTimeoutDue(w, i) ==
    claimDisputeTimeoutRevert(disputes[w][i].challenger, w, i - 1, TRUE) = "ok"

\* C9: when no oracle callback is delivered, a due timeout claim of a dispute
\* stays due until the dispute is closed, whatever calls accounts other than
\* the challenger make in the meantime.
C9_DueTimeoutStaysDue ==
    [][\A w \in WorkIds : \A i \in 1..Len(disputes[w]) :
          DisputeTimeoutDue(w, i) =>
             \/ DisputeTimeoutDue(w, i)'
             \/ disputes'[w][i].resolved
             \/ /\ counterRequest' # counterRequest
                /\ pendingDecryptions'[counterRequest].initiator = disputes[w][i].challenger]_vars

\* C10: a callback is accepted only for a request id of its own kind:
\* verificationCallback only for an id that requestVerifyWork issued,
\* disputeResolutionCallback only for an id that requestDisputeResolution
\* issued.
C10_CallbackKindMatches ==
    [][\A r \in RequestIds, c \in Cleartexts, p \in Proofs :
          /\ verificationCallback(r, c, p) =>
                /\ pendingDecryptions[r].initiator # ZeroAddress
                /\ pendingDecryptions[r].decryptionType = "Verification"
                /\ RequestCreated(r)
          /\ disputeResolutionCallback(r, c, p) =>
                /\ pendingDecryptions[r].initiator # ZeroAddress
                /\ pendingDecryptions[r].decryptionType = "DisputeResolution"]_vars

\* C11: a successful verificationCallback on a Requested request sets
\* completed, credits pendingRefunds[requester] by exactly the depositAmount
\* whether or not the result is a match, sets the work's verified flag when
\* the result is a match and leaves it unchanged when it is not, and changes
\* no other request, no other escrow balance, no other work and no funds.
C11_CallbackEffects ==
    [][\A p \in Proofs :
          (Requested(p.requestId)
             /\ verificationCallback(p.requestId, p.cleartexts, p)) =>
             LET r == p.requestId
                 request == verificationRequests[r]
                 isMatch == oracleCleartexts[r] = <<EncodeBool(TRUE)>>
             IN  /\ verificationRequests' = [verificationRequests EXCEPT
                                               ![r].completed = TRUE]
                 /\ pendingRefunds' = [pendingRefunds EXCEPT
                       ![request.requester] = @ + request.depositAmount]
                 /\ works' = IF isMatch
                             THEN [works EXCEPT ![request.workId].verified = TRUE]
                             ELSE works
                 /\ balance' = balance
                 /\ platformFees' = platformFees
                 /\ received' = received]_vars

\* C11 witness: two requests were completed by callbacks, one a match (the
\* work is verified) and one not, and the requester was credited both
\* deposits.
C11_Witness ==
    \E r1, r2 \in RequestIds :
        /\ verificationRequests[r1].completed /\ ~verificationRequests[r1].refunded
        /\ verificationRequests[r2].completed /\ ~verificationRequests[r2].refunded
        /\ oracleCleartexts[r1] = <<1>>
        /\ oracleCleartexts[r2] = <<0>>
        /\ works[verificationRequests[r1].workId].verified
        /\ verificationRequests[r1].requester = verificationRequests[r2].requester
        /\ verificationRequests[r1].depositAmount > 0
        /\ credited[verificationRequests[r1].requester] =
              verificationRequests[r1].depositAmount
                 + verificationRequests[r2].depositAmount

\* C12: a successful disputeResolutionCallback sets the dispute's resolved
\* flag, records a winner that is the work's registrant or the dispute's
\* challenger, credits pendingRefunds[winner] by exactly the dispute's
\* depositAmount and nobody else's balance, and increments the challenger's
\* wonDisputes by one exactly when the challenger is the winner; the
\* registrant's wonDisputes and every other author profile stay as they were.
\* A callback commits only with a proof over its own request id and
\* cleartexts (checkSignatures), so the calls are those a proof names.
C12_ResolutionEffects ==
    [][\A p \in Proofs :
          disputeResolutionCallback(p.requestId, p.cleartexts, p) =>
             LET r == p.requestId
                 w == pendingDecryptions[r].workId
                 i == pendingDecryptions[r].disputeId + 1
                 dispute == disputes[w][i]
                 work == works[w]
                 winner == disputes'[w][i].winner
             IN  /\ disputes'[w][i].resolved
                 /\ winner \in {work.registrant, dispute.challenger}
                 /\ disputes' = [disputes EXCEPT ![w][i].resolved = TRUE,
                                                 ![w][i].winner = winner]
                 /\ pendingRefunds' = [pendingRefunds EXCEPT
                                         ![winner] = @ + dispute.depositAmount]
                 /\ balance' = balance
                 /\ received' = received
                 /\ authors' = IF winner = dispute.challenger
                                THEN [authors EXCEPT
                                        ![dispute.challenger].wonDisputes = @ + 1]
                                ELSE authors]_vars

\* C12 witness: a dispute with equal hashes was resolved by the callback for
\* the registrant, who holds the deposit in escrow; the challenger's
\* wonDisputes is still 0.
C12_Witness ==
    \E w \in WorkIds : \E i \in 1..Len(disputes[w]) :
        /\ disputes[w][i].resolved
        /\ disputes[w][i].winner = works[w].registrant
        /\ disputes[w][i].winner # ZeroAddress
        /\ disputes[w][i].challengerContentHash = works[w].contentHash
        /\ disputes[w][i].depositAmount > 0
        /\ pendingRefunds[works[w].registrant] = disputes[w][i].depositAmount
        /\ pendingRefunds[disputes[w][i].challenger] = 0
        /\ authors[disputes[w][i].challenger].wonDisputes = 0
        /\ authors[works[w].registrant].wonDisputes = 0

\* requestDisputeResolution has been called for the dispute (it left a
\* pending decryption that points to it): states ResolutionRequested and
\* later, as opposed to Filed.
ResolutionRequested(w, i) ==
    \E r \in RequestIds :
        /\ pendingDecryptions[r].initiator # ZeroAddress
        /\ pendingDecryptions[r].decryptionType = "DisputeResolution"
        /\ pendingDecryptions[r].workId = w
        /\ pendingDecryptions[r].disputeId = i - 1

C14_TimeoutOnlyByDepositor ==
    [][/\ \A sender \in Accounts, r \in RequestIds, accepts \in BOOLEAN :
             claimVerificationTimeout(sender, r, accepts) =>
                /\ sender = verificationRequests[r].requester
                /\ received' = [received EXCEPT ![verificationRequests[r].requester] =
                                   @ + verificationRequests[r].depositAmount]
       /\ \A sender \in Accounts, w \in WorkIds, d \in DisputeIds, accepts \in BOOLEAN :
             claimDisputeTimeout(sender, w, d, accepts) =>
                /\ d < Len(disputes[w])
                /\ sender = disputes[w][d + 1].challenger
                /\ received' = [received EXCEPT ![disputes[w][d + 1].challenger] =
                                   @ + disputes[w][d + 1].depositAmount]
       /\ \A r \in RequestIds :
             /\ (~verificationRequests[r].refunded /\ verificationRequests'[r].refunded)
                   => \E accepts \in BOOLEAN :
                         claimVerificationTimeout(verificationRequests[r].requester,
                                                  r, accepts)
             /\ (~verificationRequests[r].completed /\ verificationRequests'[r].completed)
                   => \E c \in Cleartexts, p \in Proofs : verificationCallback(r, c, p)
       /\ \A w \in WorkIds : \A i \in 1..Len(disputes[w]) :
             (~disputes[w][i].resolved /\ disputes'[w][i].resolved)
                => \/ \E accepts \in BOOLEAN :
                         claimDisputeTimeout(disputes[w][i].challenger, w, i - 1, accepts)
                   \/ \E r \in RequestIds, c \in Cleartexts, p \in Proofs :
                         disputeResolutionCallback(r, c, p)]_vars

\* C15: the timeout claims pay by direct transfer and do not touch the escrow
\* ledger: a successful claimVerificationTimeout or claimDisputeTimeout
\* transfers exactly the stored depositAmount to the caller, marks its own
\* record, and leaves every pendingRefunds entry, platformFees and every
\* other request and dispute record unchanged.
C15_TimeoutPaysDirectly ==
    [][/\ \A sender \in Accounts, r \in RequestIds, accepts \in BOOLEAN :
             claimVerificationTimeout(sender, r, accepts) =>
                LET amount == verificationRequests[r].depositAmount
                IN  /\ received' = [received EXCEPT ![sender] = @ + amount]
                    /\ balance' = balance - amount
                    /\ pendingRefunds' = pendingRefunds
                    /\ credited' = credited
                    /\ platformFees' = platformFees
                    /\ verificationRequests' =
                          [verificationRequests EXCEPT ![r].refunded = TRUE]
                    /\ disputes' = disputes
       /\ \A sender \in Accounts, w \in WorkIds, d \in DisputeIds, accepts \in BOOLEAN :
             claimDisputeTimeout(sender, w, d, accepts) =>
                LET amount == disputes[w][d + 1].depositAmount
                IN  /\ received' = [received EXCEPT ![sender] = @ + amount]
                    /\ balance' = balance - amount
                    /\ pendingRefunds' = pendingRefunds
                    /\ credited' = credited
                    /\ platformFees' = platformFees
                    /\ disputes' = [disputes EXCEPT ![w][d + 1].resolved = TRUE]
                    /\ verificationRequests' = verificationRequests]_vars

\* C15 witness: a dispute was closed by the timeout claim: the challenger
\* received the deposit, nothing was ever credited to the escrow ledger and
\* the platform fees are still there.
C15_Witness ==
    \E w \in WorkIds : \E i \in 1..Len(disputes[w]) :
        /\ disputes[w][i].resolved
        /\ disputes[w][i].winner = ZeroAddress
        /\ disputes[w][i].depositAmount > 0
        /\ received[disputes[w][i].challenger] = disputes[w][i].depositAmount
        /\ \A a \in Addresses : pendingRefunds[a] = 0 /\ credited[a] = 0
        /\ platformFees > 0
        /\ balance = platformFees

\* C16: a callback whose proof is not the oracle's signature over the
\* request id and the cleartexts it is called with is aborted before the
\* payload is decoded and whatever the state of the request or dispute, so
\* it commits nothing: by the signature check, or, for a dispute callback
\* made while an outbound transfer is in flight, by the re-entrancy guard
\* that runs before it.
C16_InvalidProofRejected ==
    \A p \in Proofs, r \in RequestIds, c \in Cleartexts :
        ~(/\ p.signer = "oracle"
          /\ p.requestId = r
          /\ p.cleartexts = c
          /\ OracleIssued(r)
          /\ c = oracleCleartexts[r]) =>
           /\ verificationCallbackRevert(r, c, p) = "InvalidKMSSignatures"
           /\ disputeResolutionCallbackRevert(r, c, p) =
                 (IF locked THEN "AC: Reentrant call" ELSE "InvalidKMSSignatures")

\* C16 witness: a dispute is waiting for its resolution; a proof by another
\* signer over the right payload is rejected by the signature check, by
\* either callback, while the oracle's proof would be accepted.
C16_Witness ==
    \E r \in RequestIds :
        LET forged == [signer |-> "other", requestId |-> r,
                       cleartexts |-> oracleCleartexts[r]]
            genuine == [signer |-> "oracle", requestId |-> r,
                        cleartexts |-> oracleCleartexts[r]]
            w == pendingDecryptions[r].workId
            d == pendingDecryptions[r].disputeId
        IN  /\ OracleIssued(r)
            /\ pendingDecryptions[r].decryptionType = "DisputeResolution"
            /\ ~DisputeAt(w, d).resolved
            /\ DisputeAt(w, d).decryptionRequestId = r
            /\ disputeResolutionCallbackRevert(r, oracleCleartexts[r], forged)
                  = "InvalidKMSSignatures"
            /\ verificationCallbackRevert(r, oracleCleartexts[r], forged)
                  = "InvalidKMSSignatures"
            /\ disputeResolutionCallbackRevert(r, oracleCleartexts[r], genuine) = "ok"

\* C17: withdrawRefund is rejected when the caller's pendingRefunds balance
\* is zero; otherwise the balance is zero by the time the transfer is issued
\* and exactly the previous balance is transferred, so that in every state,
\* also while a transfer is in flight and its recipient calls back, what an
\* account has withdrawn plus what it may still withdraw is what was
\* credited to it, and the total withdrawn never exceeds the total credited.
C17_WithdrawNeverExceedsCredit ==
    \A a \in Addresses :
        /\ withdrawn[a] <= credited[a]
        /\ withdrawn[a] + pendingRefunds[a] = credited[a]
        /\ pendingRefunds[a] = 0 =>
              \A accepts \in BOOLEAN : withdrawRefundRevert(a, accepts) # "ok"

\* C17 witness: a withdrawRefund transfer is in flight; its recipient has
\* been credited again meanwhile (a callback delivered during the transfer)
\* and a nested withdrawRefund by it is rejected by the guard.
C17_Witness ==
    /\ ~NoCallInFlight
    /\ LET top == callStack[Len(callStack)]
       IN  /\ top.fn = "withdrawRefund"
           /\ top.amount > 0
           /\ withdrawn[top.recipient] = top.amount
           /\ pendingRefunds[top.recipient] > 0
           /\ withdrawRefundRevert(top.recipient, TRUE) = "AC: Reentrant call"

\* C18: every function that issues an outbound transfer runs under the
\* in-flight-call guard and has committed its state changes when the
\* transfer is issued: _locked is set and the function's effect is in place
\* as soon as the transfer is in flight, nothing but _locked changes when it
\* returns, and while it is in flight every call, by the recipient or by
\* any other account its code reaches, into claimVerificationTimeout,
\* claimDisputeTimeout, withdrawRefund or withdrawPlatformFees is rejected.
C18_GuardedTransfers ==
    [][/\ ~NoCallInFlight =>
             \A recipient \in Accounts :
                 /\ locked
                 /\ \A r \in RequestIds, accepts \in BOOLEAN :
                       claimVerificationTimeoutRevert(recipient, r, accepts)
                          = "AC: Reentrant call"
                 /\ \A w \in WorkIds, d \in DisputeIds, accepts \in BOOLEAN :
                       claimDisputeTimeoutRevert(recipient, w, d, accepts)
                          = "AC: Reentrant call"
                 /\ \A accepts \in BOOLEAN :
                       withdrawRefundRevert(recipient, accepts) = "AC: Reentrant call"
                 /\ \A to \in Addresses, accepts \in BOOLEAN :
                       withdrawPlatformFeesRevert(recipient, to, accepts)
                          \in {"AC: Not authorized", "AC: Reentrant call"}
       /\ Len(callStack') > Len(callStack) =>
             LET top == callStack'[Len(callStack')]
             IN  /\ locked'
                 /\ top.fn = "withdrawRefund" => pendingRefunds'[top.recipient] = 0
                 /\ top.fn = "withdrawPlatformFees" => platformFees' = 0
                 /\ top.fn = "claimVerificationTimeout" =>
                       \E r \in RequestIds :
                          /\ verificationRequests[r].requester = top.recipient
                          /\ ~verificationRequests[r].refunded
                          /\ verificationRequests'[r].refunded
                 /\ top.fn = "claimDisputeTimeout" =>
                       \E w \in WorkIds : \E i \in 1..Len(disputes[w]) :
                          /\ disputes[w][i].challenger = top.recipient
                          /\ ~disputes[w][i].resolved
                          /\ disputes'[w][i].resolved
       /\ Len(callStack') < Len(callStack) =>
             /\ ~locked'
             /\ UNCHANGED <<platformFees, works, disputes, authors,
                            verificationRequests, pendingDecryptions,
                            pendingRefunds, balance, received>>]_vars

\* C18 witness: a timeout refund is in flight to an account that has a
\* second request due for its timeout refund, and the contract could pay it;
\* only the guard rejects the nested claim.
C18_Witness ==
    /\ ~NoCallInFlight
    /\ LET top == callStack[Len(callStack)]
       IN  /\ top.fn = "claimVerificationTimeout"
           /\ \E r \in RequestIds :
                 /\ Requested(r)
                 /\ verificationRequests[r].requester = top.recipient
                 /\ now > verificationRequests[r].requestTimestamp + VERIFICATION_TIMEOUT
                 /\ balance >= verificationRequests[r].depositAmount
                 /\ claimVerificationTimeoutRevert(top.recipient, r, TRUE)
                       = "AC: Reentrant call"

\* C19: if the outbound transfer of claimVerificationTimeout,
\* claimDisputeTimeout or withdrawRefund fails (the recipient refuses it or
\* the contract cannot pay it), the call is rejected, so the request is
\* still not refunded, the dispute not resolved and the escrow balance
\* intact; the guard is released, and a call that failed only because the
\* recipient refused succeeds when it is retried and accepted.
C19_FailedTransferRejected ==
    /\ NoCallInFlight => ~locked
    /\ \A sender \in Accounts, accepts \in BOOLEAN :
          /\ \A r \in RequestIds :
                LET amount == verificationRequests[r].depositAmount
                IN  /\ (amount > 0 /\ (~accepts \/ balance < amount)) =>
                          claimVerificationTimeoutRevert(sender, r, accepts) # "ok"
                    /\ (claimVerificationTimeoutRevert(sender, r, FALSE) = "AC: Refund failed"
                           /\ balance >= amount) =>
                          claimVerificationTimeoutRevert(sender, r, TRUE) = "ok"
          /\ \A w \in WorkIds : \A i \in 1..Len(disputes[w]) :
                LET amount == disputes[w][i].depositAmount
                IN  /\ (amount > 0 /\ (~accepts \/ balance < amount)) =>
                          claimDisputeTimeoutRevert(sender, w, i - 1, accepts) # "ok"
                    /\ (claimDisputeTimeoutRevert(sender, w, i - 1, FALSE) = "AC: Refund failed"
                           /\ balance >= amount) =>
                          claimDisputeTimeoutRevert(sender, w, i - 1, TRUE) = "ok"
          /\ LET amount == pendingRefunds[sender]
             IN  /\ (~accepts \/ balance < amount) =>
                       withdrawRefundRevert(sender, accepts) # "ok"
                 /\ (withdrawRefundRevert(sender, FALSE) = "AC: Withdrawal failed"
                        /\ balance >= amount) =>
                       withdrawRefundRevert(sender, TRUE) = "ok"

\* C19 witness: an account has an escrow balance and a request due for its
\* timeout refund; when it refuses the payment both calls are rejected with
\* the transfer error, and both would succeed if it accepted.
C19_Witness ==
    \E a \in Accounts, r \in RequestIds :
        /\ pendingRefunds[a] > 0
        /\ withdrawRefundRevert(a, FALSE) = "AC: Withdrawal failed"
        /\ withdrawRefundRevert(a, TRUE) = "ok"
        /\ Requested(r)
        /\ verificationRequests[r].requester = a
        /\ claimVerificationTimeoutRevert(a, r, FALSE) = "AC: Refund failed"
        /\ claimVerificationTimeoutRevert(a, r, TRUE) = "ok"

\* C20: for every work and every account, fileDispute called by the work's
\* owning account is rejected with the self-dispute error, whatever deposit
\* and fingerprint it is called with.
C20_SelfDisputeRejected ==
    \A sender \in Accounts, w \in WorkIds, challengerContentHash \in HashValues,
       value \in DisputeValues :
        (validWorkId(w) /\ works[w].registrant = sender) =>
            fileDisputeRevert(sender, w, challengerContentHash, value)
               = "AC: Cannot dispute own work"

\* C21: no work ever has more than MAX_DISPUTES_PER_WORK disputes, and
\* against a work that already has MAX_DISPUTES_PER_WORK disputes every
\* fileDispute, whoever calls it and whatever it sends, is rejected with the
\* too-many-disputes error.  The limit is the last check of fileDispute, so
\* a call that fails an earlier check is rejected with that check's error.
C21_BoundedDisputes ==
    \A w \in WorkIds :
        /\ Len(disputes[w]) <= MAX_DISPUTES_PER_WORK
        /\ Len(disputes[w]) = MAX_DISPUTES_PER_WORK =>
              \A sender \in Accounts, challengerContentHash \in HashValues,
                 value \in DisputeValues :
                  fileDisputeRevert(sender, w, challengerContentHash, value)
                     = "AC: Max disputes reached"

\* C22: a successful fileDispute appends exactly one dispute record in state
\* Filed (resolved false, no winner, request id 0, request timestamp 0,
\* depositAmount the value sent) at the index that was the number of disputes
\* of the work, sets the work's disputed flag, and adds one to the work's
\* disputeCount, to the challenger's totalDisputes and to the owner's
\* totalDisputes; no existing dispute record changes, and a dispute list
\* grows by no other step.
C22_FileDisputeEffects ==
    [][/\ \A sender \in Accounts, w \in WorkIds, challengerContentHash \in HashValues,
            value \in DisputeValues :
             fileDispute(sender, w, challengerContentHash, value) =>
                LET n == Len(disputes[w])
                    registrant == works[w].registrant
                IN  /\ Len(disputes'[w]) = n + 1
                    /\ disputes'[w][n + 1] =
                          [challenger |-> sender,
                           challengerContentHash |-> challengerContentHash,
                           timestamp |-> now, depositAmount |-> value,
                           resolved |-> FALSE, winner |-> ZeroAddress,
                           decryptionRequestId |-> 0, requestTimestamp |-> 0]
                    /\ SubSeq(disputes'[w], 1, n) = disputes[w]
                    /\ \A x \in WorkIds \ {w} : disputes'[x] = disputes[x]
                    /\ works'[w].disputed
                    /\ works'[w].disputeCount = works[w].disputeCount + 1
                    /\ works'[w].disputeCount = n + 1
                    /\ sender # registrant
                    /\ authors'[sender].totalDisputes = authors[sender].totalDisputes + 1
                    /\ authors'[registrant].totalDisputes =
                          authors[registrant].totalDisputes + 1
                    /\ \A a \in Addresses \ {sender, registrant} : authors'[a] = authors[a]
       /\ \A w \in WorkIds :
             Len(disputes'[w]) # Len(disputes[w]) =>
                \E sender \in Accounts, challengerContentHash \in HashValues,
                   value \in DisputeValues :
                    fileDispute(sender, w, challengerContentHash, value)]_vars

\* C22 witness: a second dispute was filed against a work whose first dispute
\* is already waiting for its resolution: it sits at index 1 in state Filed,
\* the first record kept its request id, and the three counters are 2.
C22_Witness ==
    \E w \in WorkIds :
        /\ Len(disputes[w]) = 2
        /\ disputes[w][1].decryptionRequestId # 0
        /\ ~disputes[w][2].resolved
        /\ disputes[w][2].winner = ZeroAddress
        /\ disputes[w][2].decryptionRequestId = 0
        /\ disputes[w][2].requestTimestamp = 0
        /\ disputes[w][2].depositAmount = DISPUTE_DEPOSIT
        /\ works[w].disputed
        /\ works[w].disputeCount = 2
        /\ authors[disputes[w][2].challenger].totalDisputes = 2
        /\ authors[works[w].registrant].totalDisputes = 2

\* C23: fileDispute is rejected, and so changes nothing, when the work id
\* does not exist, when the value sent is below DISPUTE_DEPOSIT, when the
\* caller is not a registered author and when the challenger fingerprint is
\* zero: no call with one of these defects is accepted in any state, and
\* every fileDispute that commits has none of them.
C23_FileDisputeRejections ==
    /\ [](\A sender \in Accounts, w \in WorkIds, challengerContentHash \in HashValues,
            value \in DisputeValues :
             (\/ ~(w >= 1 /\ w <= workCounter)
              \/ value < DISPUTE_DEPOSIT
              \/ ~authors[sender].registered
              \/ challengerContentHash = 0) =>
                fileDisputeRevert(sender, w, challengerContentHash, value) # "ok")
    /\ [][\A sender \in Accounts, w \in WorkIds, challengerContentHash \in HashValues,
            value \in DisputeValues :
             fileDispute(sender, w, challengerContentHash, value) =>
                /\ w >= 1 /\ w <= workCounter
                /\ works[w].registrant # ZeroAddress
                /\ value >= DISPUTE_DEPOSIT
                /\ authors[sender].registered
                /\ challengerContentHash # 0]_vars

\* C23 witness: one dispute has been filed, and a further call by the same
\* challenger is accepted as it is but rejected with each of the four
\* defects: a work id that was never issued, a deposit one gwei short, an
\* unregistered caller, a zero fingerprint.
C23_Witness ==
    \E w \in WorkIds, a \in Accounts :
        /\ Len(disputes[w]) = 1
        /\ disputes[w][1].challenger = a
        /\ fileDisputeRevert(a, w, 1, DISPUTE_DEPOSIT) = "ok"
        /\ fileDisputeRevert(a, workCounter + 1, 1, DISPUTE_DEPOSIT) = "AC: Invalid work ID"
        /\ fileDisputeRevert(a, 0, 1, DISPUTE_DEPOSIT) = "AC: Invalid work ID"
        /\ fileDisputeRevert(a, w, 1, DISPUTE_DEPOSIT - 1)
              = "AC: Insufficient dispute deposit"
        /\ ~authors[Deployer].registered
        /\ fileDisputeRevert(Deployer, w, 1, DISPUTE_DEPOSIT) = "AC: Author not registered"
        /\ fileDisputeRevert(a, w, 0, DISPUTE_DEPOSIT) = "AC: Invalid content hash"

\* C24: requestVerifyWork is rejected, and so changes nothing, when the work
\* does not exist, when the value sent is below the minimum fee and when the
\* candidate fingerprint is zero; otherwise (the contract neither paused nor
\* inside a guarded call) it is accepted and creates, under the id the oracle
\* assigns, a request in state Requested whose requester is the caller, whose
\* depositAmount is the full value sent and whose requestTimestamp is the
\* current time, leaving every other request as it was.
C24_RequestVerifyWork ==
    [][/\ \A sender \in Accounts, w \in WorkIds, contentHashToVerify \in HashValues,
            value \in VerificationDeposits :
             IF \/ ~(w >= 1 /\ w <= workCounter)
                \/ value < MIN_REGISTRATION_FEE
                \/ contentHashToVerify = 0
             THEN requestVerifyWorkRevert(sender, w, contentHashToVerify, value) # "ok"
             ELSE (~paused /\ ~locked) =>
                     requestVerifyWorkRevert(sender, w, contentHashToVerify, value) = "ok"
       /\ \A sender \in Accounts, w \in WorkIds, contentHashToVerify \in HashValues,
            value \in VerificationDeposits :
             requestVerifyWork(sender, w, contentHashToVerify, value) =>
                LET requestId == counterRequest
                IN  /\ ~OracleIssued(requestId)
                    /\ oracleCleartexts'[requestId] # <<>>
                    /\ verificationRequests'[requestId] =
                          [requester |-> sender, workId |-> w, requestId |-> requestId,
                           depositAmount |-> value, requestTimestamp |-> now,
                           completed |-> FALSE, refunded |-> FALSE]
                    /\ \A r \in RequestIds \ {requestId} :
                          verificationRequests'[r] = verificationRequests[r]
                    /\ balance' = balance + value
                    /\ works[w].registrant # ZeroAddress]_vars

\* C24 witness: after the clock has advanced, a request was made with more
\* than the minimum fee: it is in state Requested, holds the whole value sent
\* and the time of the call, and calls with a missing work, a short deposit
\* or a zero fingerprint are rejected.
C24_Witness ==
    \E r \in RequestIds :
        LET request == verificationRequests[r]
        IN  /\ Requested(r)
            /\ request.requestId = r
            /\ request.depositAmount = MIN_REGISTRATION_FEE + 1
            /\ request.requestTimestamp = now
            /\ now > GenesisTime
            /\ balance = platformFees + request.depositAmount
            /\ requestVerifyWorkRevert(request.requester, workCounter + 1, 1,
                                       MIN_REGISTRATION_FEE) = "AC: Invalid work ID"
            /\ requestVerifyWorkRevert(request.requester, request.workId, 1,
                                       MIN_REGISTRATION_FEE - 1)
                  = "AC: Verification deposit required"
            /\ requestVerifyWorkRevert(request.requester, request.workId, 0,
                                       MIN_REGISTRATION_FEE) = "AC: Invalid content hash"

\* C25: resolution of a dispute may be forced by either party and by nobody
\* else: for an existing dispute in state Filed, requestDisputeResolution by
\* the dispute's challenger or by the work's owning account is accepted
\* (unless the contract is paused) and by any other caller is rejected; it is
\* rejected for a work that does not exist and for a dispute index outside
\* the work's dispute list, and every call that commits is a party's call
\* for an existing dispute.
C25_ResolutionByParties ==
    [][/\ \A sender \in Accounts, w \in WorkIds, d \in DisputeIds \cup CapDisputeIds :
             IF ~(w >= 1 /\ w <= workCounter) \/ ~(d < Len(disputes[w]))
             THEN requestDisputeResolutionRevert(sender, w, d) # "ok"
             ELSE (~disputes[w][d + 1].resolved /\ disputes[w][d + 1].decryptionRequestId = 0) =>
                     IF sender \in {disputes[w][d + 1].challenger, works[w].registrant}
                     THEN ~paused => requestDisputeResolutionRevert(sender, w, d) = "ok"
                     ELSE requestDisputeResolutionRevert(sender, w, d) # "ok"
       /\ \A sender \in Accounts, w \in WorkIds, d \in DisputeIds \cup CapDisputeIds :
             requestDisputeResolution(sender, w, d) =>
                /\ w >= 1 /\ w <= workCounter
                /\ d < Len(disputes[w])
                /\ sender \in {disputes[w][d + 1].challenger, works[w].registrant}
                /\ disputes'[w][d + 1].decryptionRequestId = counterRequest
                /\ pendingDecryptions'[counterRequest].initiator = sender]_vars

\* C25 witness: the work's owning account has forced the resolution of the
\* first dispute; the last dispute of the full list is still Filed and both
\* its challenger and the owner may force it, a third account may not, and
\* the index past the end of the list and a work id never issued are
\* rejected.
C25_Witness ==
    \E w \in WorkIds, r \in RequestIds :
        /\ Len(disputes[w]) = MAX_DISPUTES_PER_WORK
        /\ disputes[w][1].decryptionRequestId = r
        /\ r # 0
        /\ pendingDecryptions[r].initiator = works[w].registrant
        /\ pendingDecryptions[r].initiator # disputes[w][1].challenger
        /\ LET last == MAX_DISPUTES_PER_WORK - 1
               dispute == DisputeAt(w, last)
           IN  /\ ~dispute.resolved
               /\ dispute.decryptionRequestId = 0
               /\ requestDisputeResolutionRevert(dispute.challenger, w, last) = "ok"
               /\ requestDisputeResolutionRevert(works[w].registrant, w, last) = "ok"
               /\ requestDisputeResolutionRevert(Deployer, w, last) = "AC: Not authorized"
               /\ requestDisputeResolutionRevert(dispute.challenger, w, last + 1)
                     = "AC: Invalid dispute ID"
               /\ requestDisputeResolutionRevert(dispute.challenger, workCounter + 1, 0)
                     = "AC: Invalid work ID"

\* C26: while paused is true every state-changing entry point is rejected:
\* registerAuthor, registerWork, requestVerifyWork, verificationCallback,
\* fileDispute, requestDisputeResolution, disputeResolutionCallback,
\* claimVerificationTimeout, claimDisputeTimeout and withdrawRefund.
C26_PauseStopsEverything ==
    paused =>
       /\ \A sender \in Accounts, authorId \in AuthorIdValues :
             registerAuthorRevert(sender, authorId) # "ok"
       /\ \A sender \in Accounts, contentHash \in WorkHashValues,
            titleLen \in TitleLengths, categoryLen \in CategoryLengths,
            value \in RegistrationValues :
             registerWorkRevert(sender, contentHash, titleLen, categoryLen, value) # "ok"
       /\ \A sender \in Accounts, w \in WorkIds, contentHash \in HashValues,
            value \in VerificationValues :
             requestVerifyWorkRevert(sender, w, contentHash, value) # "ok"
       /\ \A sender \in Accounts, w \in WorkIds, contentHash \in HashValues,
            value \in DisputeValues :
             fileDisputeRevert(sender, w, contentHash, value) # "ok"
       /\ \A sender \in Accounts, w \in WorkIds, d \in DisputeIds :
             requestDisputeResolutionRevert(sender, w, d) # "ok"
       /\ \A p \in Proofs :
             /\ verificationCallbackRevert(p.requestId, p.cleartexts, p) # "ok"
             /\ disputeResolutionCallbackRevert(p.requestId, p.cleartexts, p) # "ok"
       /\ \A sender \in Accounts, accepts \in BOOLEAN :
             /\ \A r \in RequestIds :
                   claimVerificationTimeoutRevert(sender, r, accepts) # "ok"
             /\ \A w \in WorkIds, d \in DisputeIds :
                   claimDisputeTimeoutRevert(sender, w, d, accepts) # "ok"
             /\ withdrawRefundRevert(sender, accepts) # "ok"

\* C27: registration is append-only: registerAuthor by an account that is
\* already registered is always rejected, and once an account is registered
\* its registered flag stays true and its workCount, totalDisputes and
\* wonDisputes never decrease (so are never reset).
C27_RegistrationAppendOnly ==
    [][\A a \in Addresses :
          authors[a].registered =>
             /\ \A authorId \in AuthorIdValues \cup {1} :
                   registerAuthorRevert(a, authorId) # "ok"
             /\ authors'[a].registered
             /\ authors'[a].workCount >= authors[a].workCount
             /\ authors'[a].totalDisputes >= authors[a].totalDisputes
             /\ authors'[a].wonDisputes >= authors[a].wonDisputes
             /\ authors'[a].registrationTime = authors[a].registrationTime
             /\ authors'[a].authorId = authors[a].authorId]_vars

\* C27 witness: an account that has registered a work and been disputed
\* tries to register again and is rejected as already registered; its
\* counters are the ones it has earned.
C27_Witness ==
    \E a \in Accounts :
        /\ authors[a].registered
        /\ authors[a].workCount = 1
        /\ authors[a].totalDisputes = 1
        /\ registerAuthorRevert(a, 7) = "AC: Already registered"

\* C28: in every reachable state every work with id in 1..workCounter has an
\* owning account, and that account was registered before the work was
\* created; registerWork by an unregistered account is rejected, and every
\* step that creates a work is a call by an account registered before it.
C28_WorkOwnerRegistered ==
    [][/\ \A w \in WorkIds :
             (w >= 1 /\ w <= workCounter) =>
                /\ works[w].registrant # ZeroAddress
                /\ authors[works[w].registrant].registered
                /\ authors[works[w].registrant].registrationTime <= works[w].timestamp
       /\ \A sender \in Accounts, contentHash \in WorkHashValues,
            titleLen \in TitleLengths, categoryLen \in CategoryLengths,
            value \in RegistrationValues :
             ~authors[sender].registered =>
                registerWorkRevert(sender, contentHash, titleLen, categoryLen, value)
                   = "AC: Author not registered"
       /\ workCounter' # workCounter =>
             /\ workCounter' = workCounter + 1
             /\ authors[works'[workCounter'].registrant].registered]_vars

\* C28 witness: an account registered, the clock advanced and the account
\* then registered a work, while another account is not registered, has no
\* work and is rejected when it tries to register one.
C28_Witness ==
    \E w \in WorkIds, a \in Accounts :
        /\ w >= 1 /\ w <= workCounter
        /\ authors[works[w].registrant].registered
        /\ authors[works[w].registrant].registrationTime < works[w].timestamp
        /\ ~authors[a].registered
        /\ a \in Users
        /\ \A x \in WorkIds : works[x].registrant # a
        /\ registerWorkRevert(a, 1, 1, 1, MIN_REGISTRATION_FEE) = "AC: Author not registered"

\* The ids of the works an account owns.
WorksOf(a) == {w \in WorkIds : w >= 1 /\ w <= workCounter /\ works[w].registrant = a}

\* C29: work ids are assigned consecutively starting at 1: the works created
\* are exactly those with ids 1..workCounter, every successful registerWork
\* creates the work with id workCounter + 1 and no step changes workCounter
\* otherwise (a rejected call is no step and consumes no id), and each
\* account's work list holds exactly the ids of its works, in increasing
\* order, with workCount equal to the length of the list.
C29_ConsecutiveWorkIds ==
    [][/\ \A w \in WorkIds :
             (works[w].registrant # ZeroAddress) <=> (w >= 1 /\ w <= workCounter)
       /\ \A a \in Addresses :
             /\ {authorWorks[a][i] : i \in 1..Len(authorWorks[a])} = WorksOf(a)
             /\ \A i \in 1..Len(authorWorks[a]), j \in 1..Len(authorWorks[a]) :
                   i < j => authorWorks[a][i] < authorWorks[a][j]
             /\ authors[a].workCount = Len(authorWorks[a])
       /\ \A sender \in Accounts, contentHash \in WorkHashValues,
            titleLen \in TitleLengths, categoryLen \in CategoryLengths,
            value \in RegistrationValues :
             registerWork(sender, contentHash, titleLen, categoryLen, value) =>
                /\ workCounter' = workCounter + 1
                /\ works[workCounter'].registrant = ZeroAddress
                /\ works'[workCounter'].registrant = sender
                /\ \A w \in WorkIds \ {workCounter'} : works'[w] = works[w]
                /\ authorWorks'[sender] = Append(authorWorks[sender], workCounter')
       /\ workCounter' # workCounter =>
             \E sender \in Accounts, contentHash \in WorkHashValues,
                titleLen \in TitleLengths, categoryLen \in CategoryLengths,
                value \in RegistrationValues :
                 registerWork(sender, contentHash, titleLen, categoryLen, value)]_vars

\* C29 witness: three works were registered by two accounts in turn; they
\* have the ids 1, 2 and 3, and the work lists are <<1, 3>> and <<2>>.
C29_Witness ==
    \E a \in Accounts, b \in Accounts :
        /\ a # b
        /\ workCounter = 3
        /\ works[1].registrant = a
        /\ works[2].registrant = b
        /\ works[3].registrant = a
        /\ authorWorks[a] = <<1, 3>>
        /\ authorWorks[b] = <<2>>
        /\ authors[a].workCount = 2
        /\ authors[b].workCount = 1
        /\ works[workCounter + 1].registrant = ZeroAddress

\* C30: a work's verified flag is false when the work is created, becomes
\* true only by a verification callback that reports a match on a request
\* for that work that is still in state Requested, or by the owner's
\* markWorkAsVerified, and once true never returns to false.
C30_VerifiedOnlyByMatchOrOverride ==
    [][/\ workCounter' # workCounter => ~works'[workCounter'].verified
       /\ \A w \in WorkIds :
             (w >= 1 /\ w <= workCounter) =>
                /\ works[w].verified => works'[w].verified
                /\ (~works[w].verified /\ works'[w].verified) =>
                      \/ \E r \in RequestIds, p \in Proofs :
                            /\ Requested(r)
                            /\ verificationRequests[r].workId = w
                            /\ DecodeBool(p.cleartexts)
                            /\ verificationCallback(r, p.cleartexts, p)
                      \/ markWorkAsVerified(owner, w)]_vars

\* ------------------------------------------------------------------- C31
\* C31: registration places no restriction on the numeric value of
\* its arguments: while the contract is not paused, registerAuthor by an
\* unregistered caller passes its checks for every author id, zero included,
\* and registerWork by a registered author (valid title, category and fee)
\* passes its checks for every content hash, zero included.  Both contracts
\* require a non-zero id and a non-zero hash, so the zero cases fail.
C31_AnyValueAccepted ==
    ~paused =>
       /\ \A sender \in Users, authorId \in RegistrationExtremes :
             ~authors[sender].registered =>
                registerAuthorRevert(sender, authorId) = "ok"
       /\ \A sender \in Users, contentHash \in RegistrationExtremes :
             authors[sender].registered =>
                registerWorkRevert(sender, contentHash, 1, 1, registrationFee) = "ok"

\* ------------------------------------------------------------------- C32
\* The disputes filed so far, as (work id, dispute id) pairs: every index
\* of every work's dispute array, whatever its length.
DisputesFiled ==
    UNION {{<<w, i>> : i \in 0..(Len(disputes[w]) - 1)} : w \in WorkIds}

\* C32: disputes are independent: requestDisputeResolution,
\* disputeResolutionCallback and claimDisputeTimeout change the record of the
\* dispute they are called for and of no other dispute, whether of the same
\* work, of the same challenger or of another work; no step removes a
\* dispute, and each dispute's timeout runs from its own request timestamp.
C32_DisputesIndependent ==
    [][/\ \A sender \in Accounts, workId \in WorkIds, disputeId \in DisputeIds :
             requestDisputeResolution(sender, workId, disputeId) =>
                \A d \in DisputesFiled \ {<<workId, disputeId>>} :
                   disputes'[d[1]][d[2] + 1] = disputes[d[1]][d[2] + 1]
       /\ \A proof \in Proofs :
             disputeResolutionCallback(proof.requestId, proof.cleartexts, proof) =>
                \A d \in DisputesFiled \ {<<pendingDecryptions[proof.requestId].workId,
                                            pendingDecryptions[proof.requestId].disputeId>>} :
                   disputes'[d[1]][d[2] + 1] = disputes[d[1]][d[2] + 1]
       /\ \A sender \in Accounts, workId \in WorkIds, disputeId \in DisputeIds,
            accepts \in BOOLEAN :
             claimDisputeTimeout(sender, workId, disputeId, accepts) =>
                \A d \in DisputesFiled \ {<<workId, disputeId>>} :
                   disputes'[d[1]][d[2] + 1] = disputes[d[1]][d[2] + 1]
       /\ \A w \in WorkIds : Len(disputes'[w]) >= Len(disputes[w])
       /\ Cardinality({d \in DisputesFiled :
                          disputes'[d[1]][d[2] + 1] # disputes[d[1]][d[2] + 1]}) <= 1
       /\ \A d \in DisputesFiled :
             LET dispute == DisputeAt(d[1], d[2]) IN
             claimDisputeTimeoutRevert(dispute.challenger, d[1], d[2], TRUE) = "ok" =>
                now > dispute.requestTimestamp + DISPUTE_TIMEOUT]_vars

\* C32 witness: two disputes of one challenger against one work, resolution
\* requested for each at a different time; the first was closed by a timeout
\* claim when its own clock ran out while the second, requested later, is
\* open with its request id and timestamp as set and not yet due.
C32_Witness ==
    \E w \in WorkIds :
        /\ Len(disputes[w]) = 2
        /\ DisputeAt(w, 0).challenger = DisputeAt(w, 1).challenger
        /\ DisputeAt(w, 0).resolved
        /\ DisputeAt(w, 0).winner = ZeroAddress
        /\ ~DisputeAt(w, 1).resolved
        /\ DisputeAt(w, 1).decryptionRequestId # 0
        /\ DisputeAt(w, 1).decryptionRequestId # DisputeAt(w, 0).decryptionRequestId
        /\ DisputeAt(w, 1).requestTimestamp > DisputeAt(w, 0).requestTimestamp
        /\ claimDisputeTimeoutRevert(DisputeAt(w, 1).challenger, w, 1, TRUE)
              = "AC: Timeout not reached"

\* ------------------------------------------------------------------- C33
\* C33: in every reachable state an unresolved dispute has no winner; a
\* successful claimDisputeTimeout leaves its dispute resolved with no winner;
\* a step that records a non-zero winner is a disputeResolutionCallback for
\* that dispute; and once a dispute is resolved, neither its resolved flag
\* nor its winner changes again.  The owner's testingSimulateDisputeCallback
\* records a winner without a callback, so the third part fails.
C33_WinnerOnlyByCallback ==
    [][/\ \A d \in DisputesFiled :
             ~DisputeAt(d[1], d[2]).resolved => DisputeAt(d[1], d[2]).winner = ZeroAddress
       /\ \A sender \in Accounts, workId \in WorkIds, disputeId \in DisputeIds,
            accepts \in BOOLEAN :
             claimDisputeTimeout(sender, workId, disputeId, accepts) =>
                /\ disputes'[workId][disputeId + 1].resolved
                /\ disputes'[workId][disputeId + 1].winner = ZeroAddress
       /\ \A d \in DisputesFiled :
             (/\ DisputeAt(d[1], d[2]).winner = ZeroAddress
              /\ disputes'[d[1]][d[2] + 1].winner # ZeroAddress) =>
                \E proof \in Proofs :
                   /\ disputeResolutionCallback(proof.requestId, proof.cleartexts, proof)
                   /\ pendingDecryptions[proof.requestId].workId = d[1]
                   /\ pendingDecryptions[proof.requestId].disputeId = d[2]
       /\ \A d \in DisputesFiled :
             DisputeAt(d[1], d[2]).resolved =>
                /\ disputes'[d[1]][d[2] + 1].resolved
                /\ disputes'[d[1]][d[2] + 1].winner = DisputeAt(d[1], d[2]).winner]_vars

\* ------------------------------------------------------------------- C34
\* C34: the re-entrancy guard is released on every exit path: in every
\* reachable state in which no call of the contract is in progress the guard
\* flag is false, and no call of a guarded function made in such a state is
\* rejected as re-entrant.
C34_GuardReleased ==
    NoCallInFlight =>
       /\ ~locked
       /\ \A sender \in Accounts, accepts \in BOOLEAN :
             /\ \A to \in FeeRecipients :
                   withdrawPlatformFeesRevert(sender, to, accepts) # "AC: Reentrant call"
             /\ \A workId \in WorkIds, contentHash \in WorkHashValues,
                  value \in VerificationValues :
                   requestVerifyWorkRevert(sender, workId, contentHash, value)
                      # "AC: Reentrant call"
             /\ \A requestId \in RequestIds :
                   claimVerificationTimeoutRevert(sender, requestId, accepts)
                      # "AC: Reentrant call"
             /\ \A workId \in WorkIds, disputeId \in DisputeIds :
                   claimDisputeTimeoutRevert(sender, workId, disputeId, accepts)
                      # "AC: Reentrant call"
             /\ withdrawRefundRevert(sender, accepts) # "AC: Reentrant call"
       /\ \A proof \in Proofs :
             disputeResolutionCallbackRevert(proof.requestId, proof.cleartexts, proof)
                # "AC: Reentrant call"

\* C34 witness: an account withdrew its escrow balance through the guarded
\* withdrawRefund, whose transfer has returned; no call is in progress, the
\* guard is free, a repeated withdrawRefund is rejected for the empty balance
\* and not as re-entrant, and a guarded requestVerifyWork by the same account
\* passes its checks.
C34_Witness ==
    \E a \in Accounts, w \in WorkIds :
        /\ NoCallInFlight
        /\ ~locked
        /\ withdrawn[a] > 0
        /\ withdrawRefundRevert(a, TRUE) = "AC: No refund available"
        /\ requestVerifyWorkRevert(a, w, 1, MIN_REGISTRATION_FEE) = "ok"

\* ------------------------------------------------------------------- C35
\* The sum of f[x] over the elements x of S.
RECURSIVE SumOf(_, _)
SumOf(f, S) ==
    IF S = {} THEN 0
    ELSE LET x == CHOOSE y \in S : TRUE IN f[x] + SumOf(f, S \ {x})

\* What the contract owes: the platform's fees, the escrow balances, the
\* deposits of the verification requests neither completed nor refunded and
\* the deposits of the unresolved disputes.
EscrowTotal == SumOf(pendingRefunds, Addresses)

OpenVerificationDeposits ==
    SumOf([r \in RequestIds |-> verificationRequests[r].depositAmount],
          {r \in RequestIds : /\ verificationRequests[r].requester # ZeroAddress
                              /\ ~verificationRequests[r].completed
                              /\ ~verificationRequests[r].refunded})

OpenDisputeDeposits ==
    SumOf([d \in DisputesFiled |-> DisputeAt(d[1], d[2]).depositAmount],
          {d \in DisputesFiled : ~DisputeAt(d[1], d[2]).resolved})

Liabilities ==
    platformFees + EscrowTotal + OpenVerificationDeposits + OpenDisputeDeposits

\* C35 as stated: solvency: in every reachable state the funds the contract
\* holds are at least platformFees plus all escrow balances plus the
\* deposits of all open verification requests plus the deposits of all
\* unresolved disputes, so withdrawRefund by an account that accepts the
\* payment is never rejected for lack of funds.
C35_Solvency ==
    /\ balance >= Liabilities
    /\ \A a \in Accounts :
          pendingRefunds[a] > 0 => withdrawRefundRevert(a, TRUE) = "ok"

\* ------------------------------------------------------------------- C36
\* C36: in every reachable state every dispute's filing timestamp is greater
\* than or equal to the creation timestamp of its work; every
\* disputeResolutionCallback records the work's registrant as the winner and
\* credits the deposit to the registrant; and every account's wonDisputes
\* counter is 0.
C36_RegistrantAlwaysWins ==
    [][/\ \A d \in DisputesFiled :
             DisputeAt(d[1], d[2]).timestamp >= works[d[1]].timestamp
       /\ \A a \in Addresses : authors[a].wonDisputes = 0
       /\ \A proof \in Proofs :
             disputeResolutionCallback(proof.requestId, proof.cleartexts, proof) =>
                LET workId == pendingDecryptions[proof.requestId].workId
                    disputeId == pendingDecryptions[proof.requestId].disputeId
                IN  /\ disputes'[workId][disputeId + 1].winner = works[workId].registrant
                    /\ pendingRefunds'[works[workId].registrant]
                          = pendingRefunds[works[workId].registrant]
                               + DisputeAt(workId, disputeId).depositAmount
                    /\ authors' = authors]_vars

\* C36 witness: a work registered after the clock advanced was disputed in
\* the same block, so both timestamps are equal, with the work's own content
\* hash; the oracle's callback resolved the dispute for the registrant, and
\* the challenger's wonDisputes is 0.
C36_Witness ==
    \E w \in WorkIds :
        /\ Len(disputes[w]) >= 1
        /\ works[w].timestamp > GenesisTime
        /\ DisputeAt(w, 0).timestamp = works[w].timestamp
        /\ DisputeAt(w, 0).challengerContentHash = works[w].contentHash
        /\ DisputeAt(w, 0).resolved
        /\ DisputeAt(w, 0).winner = works[w].registrant
        /\ DisputeAt(w, 0).challenger # works[w].registrant
        /\ authors[DisputeAt(w, 0).challenger].wonDisputes = 0
        /\ pendingRefunds[works[w].registrant] = DisputeAt(w, 0).depositAmount

\* ------------------------------------------------------------------- C37
\* The requires of claimVerificationTimeout that precede the transfer.
ClaimVerificationTimeoutGuardErrors ==
    {"AC: Reentrant call", "AC: Not requester", "AC: Already completed",
     "AC: Already refunded", "AC: Timeout not reached"}

\* C37 as stated: between calls, the canClaimTimeout flag returned by
\* getVerificationStatus(requestId) is true exactly when
\* claimVerificationTimeout(requestId) by some account passes all of its
\* guards; in particular it is false for a request id for which no request
\* was ever created.
C37_CanClaimTimeoutExact ==
    NoCallInFlight =>
       \A requestId \in RequestIds :
          /\ getVerificationStatus(requestId).canClaimTimeout
                <=> \E sender \in Accounts :
                       claimVerificationTimeoutRevert(sender, requestId, TRUE)
                          \notin ClaimVerificationTimeoutGuardErrors
          /\ ~RequestCreated(requestId) =>
                ~getVerificationStatus(requestId).canClaimTimeout

\* ------------------------------------------------------------------- C38
\* C38: dispute bookkeeping is consistent in every reachable state: each
\* work's disputeCount equals the length of its dispute list, which
\* getDisputeCount returns; its disputed flag is true exactly when that
\* length is positive; an id that names no work has no disputes, and
\* getDisputeCount rejects it; and each account's totalDisputes equals the number of
\* disputes it filed as challenger plus the number of disputes filed against
\* works it owns.
C38_DisputeBookkeeping ==
    /\ \A w \in WorkIds :
          IF validWorkId(w)
          THEN /\ works[w].disputeCount = getDisputeCount(w)
               /\ works[w].disputeCount = Len(disputes[w])
               /\ works[w].disputed <=> (getDisputeCount(w) > 0)
          ELSE /\ getDisputeCount(w) = "AC: Invalid work ID"
               /\ Len(disputes[w]) = 0
               /\ works[w].disputeCount = 0
               /\ ~works[w].disputed
    /\ \A a \in Addresses :
          authors[a].totalDisputes =
             Cardinality({d \in DisputesFiled : DisputeAt(d[1], d[2]).challenger = a})
                + Cardinality({d \in DisputesFiled : works[d[1]].registrant = a})

\* C38 witness: two authors each own a work and each disputed the other's
\* work, so each has totalDisputes 2 (one filed, one received), and both
\* works are flagged disputed with disputeCount 1.
C38_Witness ==
    \E a \in Users, b \in Users, v \in WorkIds, w \in WorkIds :
        /\ a # b
        /\ works[v].registrant = a /\ works[w].registrant = b
        /\ Len(disputes[v]) = 1 /\ DisputeAt(v, 0).challenger = b
        /\ Len(disputes[w]) = 1 /\ DisputeAt(w, 0).challenger = a
        /\ works[v].disputed /\ works[v].disputeCount = 1
        /\ works[w].disputed /\ works[w].disputeCount = 1
        /\ authors[a].totalDisputes = 2
        /\ authors[b].totalDisputes = 2

\* ------------------------------------------------------------------- C39
\* C39 as stated: in the earlier contract, every amount credited to
\* pendingRefunds by claimVerificationRefund equals the amount the requester
\* paid in requestVerifyWork for that request, whatever the owner did to
\* verificationFee in between; a request is refunded at most once, and never
\* after processVerificationCallback marked it processed.
C39_RefundEqualsPayment ==
    \A r \in RequestIds :
        /\ Len(v1.refunds[r]) <= 1
        /\ \A i \in 1..Len(v1.refunds[r]) :
              /\ v1.refunds[r][i].amount = v1.valuePaid[r]
              /\ ~v1.refunds[r][i].processed

\* ------------------------------------------------------------------- C40
\* C40: isTesting is false after construction and is changed only by the
\* owner's setTesting; testingSimulateVerificationCallback and
\* testingSimulateDisputeCallback are rejected (and so change nothing) with
\* "AC: Not authorized" unless the caller is the owner and with "AC: Testing
\* disabled" unless isTesting is true; and every step that completes a
\* verification request or writes a dispute's winner is a callback carrying
\* the oracle's signature for that request, or the owner's simulated callback
\* while isTesting is true.
C40_HelpersOwnerAndTestingOnly ==
    /\ ~isTesting
    /\ [][/\ isTesting' # isTesting =>
                \E enabled \in BOOLEAN : setTesting(owner, enabled)
          /\ \A sender \in Accounts, enabled \in BOOLEAN :
                sender # owner => setTestingRevert(sender, enabled) = "AC: Not authorized"
          /\ \A sender \in Accounts, requestId \in RequestIds, isMatch \in BOOLEAN :
                LET result == testingSimulateVerificationCallbackRevert(sender, requestId, isMatch)
                IN  /\ sender # owner => result = "AC: Not authorized"
                    /\ (sender = owner /\ ~isTesting) => result = "AC: Testing disabled"
          /\ \A sender \in Accounts, workId \in WorkIds, disputeId \in DisputeIds,
               winner \in Addresses :
                LET result == testingSimulateDisputeCallbackRevert(sender, workId, disputeId, winner)
                IN  /\ sender # owner => result = "AC: Not authorized"
                    /\ (sender = owner /\ ~isTesting) => result = "AC: Testing disabled"
          /\ \A r \in RequestIds :
                (~verificationRequests[r].completed /\ verificationRequests'[r].completed) =>
                   \/ \E proof \in Proofs :
                         /\ proof.requestId = r
                         /\ OracleSigned(proof)
                         /\ verificationCallback(r, proof.cleartexts, proof)
                   \/ /\ isTesting
                      /\ \E isMatch \in BOOLEAN :
                            testingSimulateVerificationCallback(owner, r, isMatch)
          /\ \A d \in DisputesFiled :
                disputes'[d[1]][d[2] + 1].winner # DisputeAt(d[1], d[2]).winner =>
                   \/ \E proof \in Proofs :
                         /\ OracleSigned(proof)
                         /\ pendingDecryptions[proof.requestId].workId = d[1]
                         /\ pendingDecryptions[proof.requestId].disputeId = d[2]
                         /\ disputeResolutionCallback(proof.requestId, proof.cleartexts, proof)
                   \/ /\ isTesting
                      /\ \E winner \in Addresses :
                            testingSimulateDisputeCallback(owner, d[1], d[2], winner)]_vars

\* C40 witness: testing is off; an open verification request exists, and a
\* dispute that the owner's simulated callback resolved for the challenger
\* while testing was on; the owner's simulated callbacks are now rejected
\* because testing is disabled, and another account's because it is not the
\* owner.
C40_Witness ==
    \E r \in RequestIds, w \in WorkIds :
        /\ ~isTesting
        /\ RequestCreated(r) /\ ~verificationRequests[r].completed
        /\ testingSimulateVerificationCallbackRevert(owner, r, TRUE) = "AC: Testing disabled"
        /\ testingSimulateVerificationCallbackRevert("bob", r, TRUE) = "AC: Not authorized"
        /\ Len(disputes[w]) = 1
        /\ DisputeAt(w, 0).resolved
        /\ DisputeAt(w, 0).winner = DisputeAt(w, 0).challenger
        /\ pendingRefunds[DisputeAt(w, 0).challenger] = DisputeAt(w, 0).depositAmount
        /\ testingSimulateDisputeCallbackRevert(owner, w, 0, "bob") = "AC: Testing disabled"
        /\ testingSimulateDisputeCallbackRevert("bob", w, 0, "bob") = "AC: Not authorized"

====
